---- MODULE Spec2Model ----
(***************************************************************************)
(* Background fetch pipeline of the feed reader worker:                    *)
(*   scheduler.py  FeedScheduler   (tick: select due feeds, enqueue, advance)*)
(*   consumer.py   JobConsumer     (pop a job, spawn a task per job)       *)
(*   fetcher.py    FeedFetcher     (per-host gate, conditional GET,        *)
(*                                  entry processing, status, fetch log)   *)
(* Every await of the source is a step boundary of the model.              *)
(***************************************************************************)
EXTENDS Integers, Sequences, FiniteSets, Bags, TLC

(* ------------------------------------------------------------------ *)
(* Settings (config.py) and bounds                                      *)
(* ------------------------------------------------------------------ *)

\* settings.scheduler_tick_seconds
TickSeconds == 30

\* settings.scheduler_batch_size, set so that the due feeds of the model exceed it
BatchSize == 2

\* settings.per_host_concurrency
PerHostConcurrency == 2

\* String(512) / [:512] of the guid, scaled to the length of the model's strings
GuidLen == 2

\* last instant the clock reaches
MaxTime == 70

\* tasks the consumer has spawned and that have not finished
MaxTasks == 3

\* process crashes (kill and restart of the worker process)
MaxCrashes == 1

\* jobs found in the queue when the worker process starts
MaxBacklog == 2

\* the requests the API process serves
MaxCalls == 1
MaxSequence == 2
MaxEvents == 2

\* the _consume_jobs coroutines of the consumer
Consumers == 2

\* the creation time of the feeds of the initial stores
Epoch == -20

\* timedelta(seconds=5): the delay of a new feed's first run
ImportDelay == 5

\* interval_seconds of an imported feed
DefaultInterval == 900

None == <<>>

Some(v) == <<v>>

Min(a, b) == IF a <= b THEN a ELSE b

(* ------------------------------------------------------------------ *)
(* The store's feeds and what their upstream servers can serve          *)
(* ------------------------------------------------------------------ *)

\* Feed.id
Feeds == {1, 2, 3}

\* urlparse(feed.url).netloc
Host(f) == IF f = 3 THEN "b.example" ELSE "a.example"

Hosts == {Host(f) : f \in Feeds}

\* Feed.interval_seconds of the stored rows
IntervalOf(f) == IF f = 3 THEN 70 ELSE 60

\* An entry as feedparser exposes it: id, link, title, published are optional
\* strings (sequences of characters), summary is the inline content.
Entry(id, link, title, published, summary) ==
    [id |-> id, link |-> link, title |-> title, published |-> published,
     summary |-> summary]

EntA  == Entry(<<"a">>, None, <<"T">>, None, "sa")

EntA2 == Entry(<<"a">>, None, <<"T">>, None, "sa2")

EntB  == Entry(<<"b">>, <<"l">>, <<"T">>, None, "sb")

\* an id longer than the guid column: truncation makes it collide with "bx"
EntBX  == Entry(<<"b", "x">>, None, None, None, "sbx")

EntBXY == Entry(<<"b", "x", "y">>, None, None, None, "sbxy")

\* no id: the link is the identity
EntL  == Entry(None, <<"a">>, <<"T">>, None, "sl")

\* no id, no link, no title: no identity
EntNone == Entry(None, None, None, <<"p">>, "sn")

\* no id, no link: the hash of title and published is the identity
EntT  == Entry(None, None, <<"T">>, <<"p">>, "st")

\* A response body: entries, validators sent with it, parse status
Doc(entries, etag, last_modified, bozo, title) ==
    [entries |-> entries, etag |-> etag, last_modified |-> last_modified,
     bozo |-> bozo, title |-> title]

Docs ==
    << Doc(<<EntA>>, Some("e1"), None, FALSE, Some("Title")),
       Doc(<<EntA2, EntB>>, None, Some(5), FALSE, Some("Title")),
       Doc(<<EntBX, EntNone, EntBXY>>, None, None, TRUE, None),
       Doc(<<>>, None, None, TRUE, None),
       Doc(<<>>, None, None, FALSE, Some("Title")),
       Doc(<<EntL, EntNone, EntT>>, None, None, FALSE, None) >>

DocIds == 1..Len(Docs)

\* len(response.content)
Bytes(d) == 10 + Len(Docs[d].entries)

\* What a feed's server does with a GET: "serve" answers 200 with its document,
\* "conditional" answers 304 to a matching If-None-Match / If-Modified-Since and
\* 200 otherwise, "error" answers HTTP 500, "down" fails the transport.
Modes == {"serve", "conditional", "error", "down"}

Server(doc, mode) == [doc |-> doc, mode |-> mode]

\* the servers a GET of the model can meet
Servers == {Server(d, "serve") : d \in DocIds}
           \cup {Server(1, "conditional"), Server(2, "conditional"),
                 Server(1, "error"), Server(1, "down")}

\* the servers behind the feeds of the scheduled store
ServedBy(f) ==
    IF f = 1 THEN Server(1, "conditional")
    ELSE IF f = 2 THEN Server(3, "serve") ELSE Server(1, "down")

(* ------------------------------------------------------------------ *)
(* Pure functions of fetcher.py                                         *)
(* ------------------------------------------------------------------ *)

\* s[:n]
Prefix(s, n) == SubSeq(s, 1, Min(Len(s), n))

\* hashlib.sha256(s.encode()).hexdigest(): collision-free, 64 hex characters
\* (fewer than the 512 of the guid column), kept as a marker followed by the
\* hashed text, which the truncation of the model does not cut
Sha256Hex(s) == <<"sha256", s>>

\* _get_entry_guid with the link tested before the id
get_entry_guid_link_first(entry) ==
    IF entry.link # None THEN Prefix(entry.link, GuidLen)
    ELSE IF entry.id # None THEN Prefix(entry.id, GuidLen)
    ELSE IF entry.title # None
         THEN Prefix(Sha256Hex(entry.title \o entry.published), GuidLen)
         ELSE None

\* FeedFetcher._get_entry_guid; None (the empty string) when no guid can be derived
get_entry_guid(entry) ==
    IF entry.id # None THEN Prefix(entry.id, GuidLen)
    ELSE IF entry.link # None THEN Prefix(entry.link, GuidLen)
    ELSE IF entry.title # None
         THEN Prefix(Sha256Hex(entry.title \o entry.published), GuidLen)
         ELSE None

\* ContentExtractor.extract_content on the article behind url: the extracted
\* html, or None when the article cannot be fetched or yields nothing
extract_content(url) == IF url = <<"l">> THEN "xl" ELSE ""

\* the item_data dict built for a new entry, lines 241-354 (id, image_url,
\* content_text, published_at and the row timestamps, which no property reads,
\* are left out)
item_data(feed_id, guid, entry) ==
    LET url          == entry.link
        extracted    == IF url # None THEN extract_content(url) ELSE ""
        content_html == IF extracted # "" THEN extracted ELSE entry.summary
    IN [feed_id |-> feed_id, guid |-> guid, title |-> entry.title, url |-> url,
        content_html |-> content_html, hash |-> Sha256Hex(content_html)]

(* ------------------------------------------------------------------ *)
(* State                                                                *)
(* ------------------------------------------------------------------ *)

VARIABLES
    now,              \* the wall clock (datetime.utcnow())
    feeds,            \* table feeds: id -> row
    items,            \* table items: bag of rows (the row ids are left out)
    fetch_log,        \* table fetch_log: bag of rows
    jobs,             \* Redis list rss:jobs; lpush at the head, brpop at the tail
    sched,            \* FeedScheduler: position in start()/_schedule_feeds
    tasks,            \* JobConsumer.active_tasks: task id -> _process_job frame
    host_semaphores,  \* FeedFetcher.host_semaphores: host -> free permits
    events,           \* the messages published on the Redis channel rss:events
    api,              \* the API process: the request handler in progress
    worker,           \* WorkerManager: the running flags and the position in stop()
    hist,             \* observations for the properties (never read by an action)
    categories,       \* tables categories and category_feed: name -> linked feed ids
    read_state,       \* table read_state: bag of rows
    requests,         \* the update_read_status handlers in progress: request -> frame
    sse               \* the event_stream generators: client -> frame

vars == <<now, feeds, items, fetch_log, jobs, sched, tasks, host_semaphores, events, api, worker, hist,
         categories, read_state, requests, sse>>

TaskIds == 1..MaxTasks

NoTask == [pc |-> "free"]

\* a Feed row as the worker's model declares it (models.py 16-40); the rows of
\* the initial stores were created at Epoch
FeedRow(f, next_run_at) ==
    [next_run_at |-> next_run_at, interval_seconds |-> IntervalOf(f), etag |-> None, last_modified |-> None,
     last_fetch_at |-> None, last_status |-> None, title |-> None,
     updated_at |-> 0, created_at |-> Epoch]

\* import_opml, lines 170-184, and process_outline_group, lines 82-100: the Feed
\* a request builds at instant t; created_at is the server default now() of the
\* INSERT (migration 001)
NewFeedRow(t, interval_seconds) ==
    [next_run_at |-> t + ImportDelay, interval_seconds |-> interval_seconds,
     etag |-> None, last_modified |-> None, last_fetch_at |-> None,
     last_status |-> None, title |-> None, updated_at |-> t, created_at |-> t]

\* the API process between two requests, after it served the given number of
\* requests; rows: the Feed objects pending in the session; response, created:
\* the status and the feeds_created of the last answer
ApiIdle(calls) == [pc |-> "idle", calls |-> calls, feed |-> 0, todo |-> <<>>, updates |-> <<>>,
                   rows |-> <<>>, response |-> "none", created |-> 0,
                   loaded |-> <<>>, categories |-> <<>>, document |-> <<>>]

\* the update_read_status requests the API serves side by side, each in its own
\* session (core/database.py, get_db)
Requests == {1, 2}

\* the primary key of an Item stands for its id: (feed_id, guid) is unique
ItemKey(row) == <<row.feed_id, row.guid>>

\* a ReadState row (models/read_state.py 12-21): starred defaults to False
ReadStateRow(item_id, read_at, starred) ==
    [item_id |-> item_id, read_at |-> read_at, starred |-> starred]

\* a request for an item with the body ReadStateUpdate(read, starred), either
\* field None (unset), Some(TRUE) or Some(FALSE); found: the ReadState row the
\* handler selected; pc "none": no such request
Request(item_id, read, starred) ==
    [pc |-> "item", item_id |-> item_id, read |-> read, starred |-> starred,
     found |-> None, response |-> "none"]

NoRequest == [Request(<<>>, None, None) EXCEPT !.pc = "none"]

\* the clients of GET /sse/events
Clients == {1, 2}

\* event_stream, lines 15-18: the generator after get_redis() and redis.pubsub();
\* yielded: the events sent; disconnected: the client has gone; observed:
\* request.is_disconnected() has answered True; unsubscribes, closes: the calls
\* of pubsub.unsubscribe and pubsub.close; raised: an exception left the
\* generator; pc "none": no stream
Stream ==
    [pc |-> "subscribe", subscribed |-> FALSE, yielded |-> <<>>, disconnected |-> FALSE,
     observed |-> FALSE, unsubscribes |-> 0, closes |-> 0, raised |-> FALSE]

NoStream == [Stream EXCEPT !.pc = "none"]

\* a job descriptor on rss:jobs: json.dumps(job_data) by the scheduler and the
\* purge, str(job_data) (the repr of the dict) by refresh_feed
Job(feed_id, scheduled_at, enc) ==
    [feed_id |-> feed_id, scheduled_at |-> scheduled_at, enc |-> enc]

\* the worker process after start(): scheduler and consumer run, every consumer
\* coroutine awaits its brpop, the HTTP client is open. gathered: the tasks
\* consumer.stop() waits for.
WorkerUp == [pc |-> "up", running |-> TRUE, sched_running |-> TRUE,
             consumer_running |-> TRUE, brpops |-> Consumers, gathered |-> {},
             http_closed |-> FALSE]

SchedIdle == [pc |-> "select", now |-> 0, todo |-> <<>>, selected |-> <<>>,
              updates |-> <<>>]

\* crashes: how often the process was killed; lost: per feed, scheduled_at of a
\* job that was popped and died mid-fetch with the process; requeued: the ticks
\* (their now) that enqueued the feed after that; refetched: the feeds fetched
\* again after that; due, rows, inflight, pushed: the tick in progress (the
\* feeds due at its select, the feeds table then, the feeds with a job queued
\* or held by a task then, the jobs it pushed so far); last_body: the document
\* of the feed's last completed fetch, when that fetch got a 200 and overlapped
\* no other fetch of the feed; refreshed: per feed, "pending" from refresh_feed's
\* commit to the start of the next tick, "next" during that tick, "no"
\* otherwise; purged: remove_all_feed_items has deleted the items; imported: the
\* feeds import_opml has committed
HistInit == [crashes |-> 0,
             lost |-> [f \in Feeds |-> None],
             requeued |-> [f \in Feeds |-> <<>>],
             refetched |-> {},
             due |-> {}, rows |-> <<>>, inflight |-> {}, pushed |-> <<>>,
             last_body |-> [f \in Feeds |-> None],
             refreshed |-> [f \in Feeds |-> "no"],
             imported |-> {},
             purged |-> FALSE]

InitStore ==
    /\ now = 0
    /\ items = EmptyBag
    /\ fetch_log = EmptyBag
    /\ sched = SchedIdle
    /\ tasks = [t \in TaskIds |-> NoTask]
    /\ host_semaphores = <<>>
    /\ events = EmptyBag
    /\ api = ApiIdle(0)
    /\ requests = [r \in Requests |-> NoRequest]
    /\ read_state = EmptyBag
    /\ categories = <<>>
    /\ worker = WorkerUp
    /\ hist = HistInit
    /\ sse = [c \in Clients |-> NoStream]

\* The worker starts with nothing queued on a store of three feeds: feed 1 is
\* due (possibly overdue), the others are not due before the clock stops.
Init ==
    /\ InitStore
    /\ feeds \in {[f \in Feeds |-> FeedRow(f, IF f = 1 THEN n ELSE 90)] : n \in {-10, 0}}
    /\ jobs = <<>>

(* ------------------------------------------------------------------ *)
(* scheduler.py: FeedScheduler                                          *)
(* ------------------------------------------------------------------ *)

\* WHERE next_run_at < now
DueStrict(t) == {f \in DOMAIN feeds : feeds[f].next_run_at < t}

\* WHERE next_run_at <= now
Due(t) == {f \in DOMAIN feeds : feeds[f].next_run_at <= t}

\* the select without ORDER BY: any scheduler_batch_size due feeds
DueListsUnordered(t) ==
    LET due == Due(t)
        n   == Min(BatchSize, Cardinality(due))
    IN {s \in [1..n -> due] : \A i, j \in 1..n : i < j => s[i] # s[j]}

\* ORDER BY next_run_at LIMIT scheduler_batch_size: every result list the
\* database may return (rows with equal next_run_at come in any order)
DueLists(t) ==
    LET due == Due(t)
        n   == Min(BatchSize, Cardinality(due))
    IN {s \in [1..n -> due] :
          /\ \A i, j \in 1..n : i < j =>
                /\ s[i] # s[j]
                /\ feeds[s[i]].next_run_at <= feeds[s[j]].next_run_at
          /\ \A f \in due \ {s[i] : i \in 1..n} :
                \A i \in 1..n : feeds[s[i]].next_run_at <= feeds[f].next_run_at}

\* the feeds with a job in the queue or held by a task
InFlightFeeds ==
    {jobs[i].feed_id : i \in 1..Len(jobs)}
    \cup {tasks[t].feed_id : t \in {u \in DOMAIN tasks : tasks[u].pc # "free"}}

\* start(), line 32: the loop test; _schedule_feeds, lines 48-62: read the
\* clock, select the due feeds
schedule_feeds_select ==
    /\ sched.pc = "select"
    /\ worker.sched_running
    /\ \E s \in DueLists(now) :
         sched' = IF s = <<>>
                  THEN [SchedIdle EXCEPT !.pc = "sleep", !.now = now]
                  ELSE [pc |-> "push", now |-> now,
                        todo |-> [i \in 1..Len(s) |->
                                    [id |-> s[i], interval_seconds |-> feeds[s[i]].interval_seconds]],
                        selected |-> s, updates |-> <<>>]
    /\ hist' = [hist EXCEPT !.due = Due(now), !.rows = feeds, !.pushed = <<>>,
                             !.inflight = InFlightFeeds,
                             !.refreshed = [f \in Feeds |->
                                              IF @[f] = "pending" THEN "next" ELSE "no"]]
    /\ UNCHANGED <<now, feeds, items, fetch_log, jobs, tasks, host_semaphores, events, api, worker, categories, read_state, requests, sse>>

\* _schedule_feeds, lines 68-87: one iteration of the loop: lpush the job, then
\* UPDATE next_run_at inside the still open transaction
schedule_feeds_push ==
    /\ sched.pc = "push"
    /\ sched.todo # <<>>
    /\ LET feed == Head(sched.todo)
       IN /\ jobs' = <<Job(feed.id, now, "json")>> \o jobs
          /\ sched' = [sched EXCEPT
                         !.todo = Tail(@),
                         !.updates = Append(@, [id |-> feed.id,
                                                next_run_at |-> sched.now + feed.interval_seconds])]
    /\ hist' = [hist EXCEPT
                  !.pushed = Append(@, Head(sched.todo).id),
                  !.requeued[Head(sched.todo).id] =
                      IF hist.lost[Head(sched.todo).id] # None
                      THEN Append(@, sched.now) ELSE @]
    /\ UNCHANGED <<now, feeds, items, fetch_log, tasks, host_semaphores, events, api, worker, categories, read_state, requests, sse>>

\* the rows after the transaction's UPDATEs are applied in order
ApplyUpdates(rows, updates, t) ==
    [f \in DOMAIN rows |->
       LET mine == {i \in 1..Len(updates) : updates[i].id = f}
       IN IF mine = {} THEN rows[f]
          ELSE LET last == CHOOSE i \in mine : \A j \in mine : j <= i
               IN [rows[f] EXCEPT !.next_run_at = updates[last].next_run_at,
                                  !.updated_at = t]]

\* _schedule_feeds, line 89: commit
schedule_feeds_commit ==
    /\ sched.pc = "push"
    /\ sched.todo = <<>>
    /\ feeds' = ApplyUpdates(feeds, sched.updates, sched.now)
    /\ sched' = [sched EXCEPT !.pc = "sleep"]
    /\ UNCHANGED <<now, items, fetch_log, jobs, tasks, host_semaphores, events, api, worker, hist, categories, read_state, requests, sse>>

\* start(), lines 35/38: asyncio.sleep(scheduler_tick_seconds)
scheduler_sleep ==
    /\ sched.pc = "sleep"
    /\ now + TickSeconds <= MaxTime
    /\ now' = now + TickSeconds
    /\ sched' = [sched EXCEPT !.pc = "select"]
    /\ UNCHANGED <<feeds, items, fetch_log, jobs, tasks, host_semaphores, events, api, worker, hist, categories, read_state, requests, sse>>

(* ------------------------------------------------------------------ *)
(* consumer.py: JobConsumer                                             *)
(* ------------------------------------------------------------------ *)

\* positions of a task inside fetch_feed's "async with semaphore" block
InGate == {"request", "entries", "insert", "run"}

FreeTasks == {t \in TaskIds : tasks[t].pc = "free"}

\* the columns of the loaded Feed object that fetch_feed reads
Loaded(row) == [etag |-> row.etag, last_modified |-> row.last_modified,
                title |-> row.title]

\* _consume_jobs, lines 59-77: the brpop a coroutine awaits returns a job, which
\* is not tested against self.running; the coroutine creates the task that
\* processes it and awaits the next brpop if the consumer still runs; a job
\* that json.loads rejects is gone with the exception it raises.
\* _process_job, lines 82-93: the task reads the Feed row, and a missing feed
\* ends the job
consume_jobs(t) ==
    /\ jobs # <<>>
    /\ worker.brpops > 0
    /\ worker' = IF worker.consumer_running THEN worker
                 ELSE [worker EXCEPT !.brpops = @ - 1]
    /\ t \in FreeTasks
    /\ \A u \in FreeTasks : t <= u
    /\ jobs' = SubSeq(jobs, 1, Len(jobs) - 1)
    /\ LET job     == jobs[Len(jobs)]
           feed_id == job.feed_id
       IN tasks' = [tasks EXCEPT ![t] =
                      IF job.enc = "json" /\ feed_id \in DOMAIN feeds
                      THEN [pc |-> "gate", job |-> job, feed_id |-> feed_id,
                            feed |-> Loaded(feeds[feed_id])]
                      ELSE NoTask]
    /\ UNCHANGED <<now, feeds, items, fetch_log, sched, host_semaphores, events, api, hist, categories, read_state, requests, sse>>

(* ------------------------------------------------------------------ *)
(* fetcher.py: FeedFetcher                                              *)
(* ------------------------------------------------------------------ *)

\* get_host_semaphore without the "if host not in" test: a new gate on every call
get_host_semaphore_fresh(host) ==
    [h \in DOMAIN host_semaphores \cup {host} |->
       IF h = host THEN PerHostConcurrency ELSE host_semaphores[h]]

\* get_host_semaphore: the gates after the host's gate exists
get_host_semaphore(host) ==
    IF host \in DOMAIN host_semaphores THEN host_semaphores
    ELSE [h \in DOMAIN host_semaphores \cup {host} |->
            IF h = host THEN PerHostConcurrency ELSE host_semaphores[h]]

\* the Item rows of a feed
ItemsOf(f) == [r \in {x \in BagToSet(items) : x.feed_id = f} |-> items[r]]

\* fetch_feed, lines 112-119: take the host's gate (created on first use) and
\* enter the block; the task waits while the gate has no free permit
fetch_feed_gate(t) ==
    /\ tasks[t].pc = "gate"
    /\ LET f    == tasks[t].feed_id
           host == Host(f)
           sems == get_host_semaphore(host)
       IN /\ sems[host] > 0
          /\ host_semaphores' = [sems EXCEPT ![host] = @ - 1]
          /\ tasks' = [u \in TaskIds |->
                IF u = t
                THEN [pc |-> "request", job |-> tasks[t].job, feed_id |-> f,
                      feed |-> tasks[t].feed,
                      prev |-> hist.last_body[f],
                      alone |-> ~ \E v \in TaskIds \ {t} :
                                    tasks[v].pc \in InGate /\ tasks[v].feed_id = f,
                      pre |-> ItemsOf(f)]
                ELSE IF tasks[u].pc \in InGate /\ tasks[u].feed_id = f
                     THEN [tasks[u] EXCEPT !.alone = FALSE]
                     ELSE tasks[u]]
    /\ UNCHANGED <<now, feeds, items, fetch_log, jobs, sched, events, api, worker, hist, categories, read_state, requests, sse>>

\* the three database writes a fetch_feed path awaits, in the order it awaits them
LogOp(status_code, bytes, error) ==
    [op |-> "log", status_code |-> status_code, bytes |-> bytes, error |-> error]

UpdOp(status_code, etag, last_modified, title) ==
    [op |-> "upd", status_code |-> status_code, etag |-> etag,
     last_modified |-> last_modified, title |-> title, at |-> 0]

\* _update_feed_status, lines 390-395: a task runs from the end of one await to
\* the start of the next without interruption, so the update that is next among
\* the pending writes has read the clock (datetime.utcnow()) at instant t, before
\* its UPDATE reaches the database
Stamp(todo, t) ==
    IF todo # <<>> /\ Head(todo).op = "upd"
    THEN <<[Head(todo) EXCEPT !.at = t]>> \o Tail(todo)
    ELSE todo

\* the except branch without its _log_fetch
OnExceptionNoLog == <<UpdOp(0, None, None, None)>>

\* fetch_feed, lines 211-216: the except branch
OnException == <<LogOp(0, 0, Some("exception")), UpdOp(0, None, None, None)>>

\* the frame fields every path past the response shares. handling: the task is
\* in the except branch of fetch_feed; failed: the writes done when a database
\* write first raised; escaped: an exception left fetch_feed; unpublished: the
\* publish of new_items raised
Run(task, response, todo, result) ==
    [pc |-> "run", job |-> task.job, feed_id |-> task.feed_id, feed |-> task.feed,
     prev |-> task.prev, alone |-> task.alone, pre |-> task.pre,
     response |-> response, todo |-> todo, result |-> result,
     i |-> 1, items_to_insert |-> <<>>,
     writes |-> <<>>, conflict |-> FALSE, absent |-> 0,
     handling |-> FALSE, failed |-> None, escaped |-> FALSE, unpublished |-> FALSE]

Result(status, new_items) == [status |-> status, new_items |-> new_items]

\* the 200 path with the FetchLog row written only when items were inserted
OnSuccessQuiet(task, d, new_items) ==
    LET feed_title == IF task.feed.title # None THEN task.feed.title ELSE Docs[d].title
    IN <<UpdOp(200, Docs[d].etag, Docs[d].last_modified, feed_title)>>
       \o (IF new_items > 0 THEN <<LogOp(200, Bytes(d), None)>> ELSE <<>>)

\* fetch_feed, lines 177-203: what follows _process_entries on the 200 path
OnSuccess(task, d, new_items) ==
    LET feed_title == IF task.feed.title # None THEN task.feed.title ELSE Docs[d].title
    IN <<UpdOp(200, Docs[d].etag, Docs[d].last_modified, feed_title),
         LogOp(200, Bytes(d), None)>>

\* the request's validators (lines 122-128) match the served document
Validates(feed, d) ==
    \/ feed.etag # None /\ feed.etag = Docs[d].etag
    \/ feed.last_modified # None /\ feed.last_modified = Docs[d].last_modified

\* the frame after the response: lines 131-172 and, for a document without
\* entries, line 220-221 up to the next await
OnResponse(task, server) ==
    LET d   == server.doc
        doc == Docs[d]
    IN IF server.mode = "down"
       THEN [Run(task, [status_code |-> 0, doc |-> 0], OnException, Result("error", 0))
               EXCEPT !.handling = TRUE]
       ELSE IF server.mode = "error"
       THEN Run(task, [status_code |-> 500, doc |-> 0],
                <<LogOp(500, 0, Some("HTTP 500")), UpdOp(500, None, None, None)>>,
                Result("error", 0))
       ELSE IF server.mode = "conditional" /\ Validates(task.feed, d)
       THEN Run(task, [status_code |-> 304, doc |-> 0],
                <<LogOp(304, 0, None), UpdOp(304, None, None, None)>>,
                Result("not_modified", 0))
       ELSE IF doc.bozo /\ doc.entries = <<>>
       THEN Run(task, [status_code |-> 200, doc |-> d],
                <<LogOp(200, Bytes(d), Some("Feed parse error"))>>, Result("error", 0))
       ELSE IF doc.entries = <<>>
       THEN Run(task, [status_code |-> 200, doc |-> d], OnSuccess(task, d, 0),
                Result("success", 0))
       ELSE [Run(task, [status_code |-> 200, doc |-> d], <<>>, Result("success", 0))
               EXCEPT !.pc = "entries"]

\* fetch_feed, line 131: the response of the feed's server to the GET arrives;
\* on a closed client the GET raises
fetch_feed_response(t, server) ==
    /\ tasks[t].pc = "request"
    /\ tasks' = [tasks EXCEPT ![t] =
                   [OnResponse(tasks[t], IF worker.http_closed
                                         THEN Server(server.doc, "down") ELSE server)
                      EXCEPT !.todo = Stamp(@, now)]]
    /\ UNCHANGED <<now, feeds, items, fetch_log, jobs, sched, host_semaphores, events, api, worker, hist, categories, read_state, requests, sse>>

\* the guids of a set of Item rows
Guids(rows) == {r.guid : r \in BagToSet(rows)}

\* the SELECT without the feed_id condition
item_exists_any_feed(feed_id, guid) == \E r \in BagToSet(items) : r.guid = guid

\* _process_entries, lines 233-239: SELECT ... WHERE feed_id = :id AND guid = :guid
item_exists(feed_id, guid) ==
    \E r \in BagToSet(items) : r.feed_id = feed_id /\ r.guid = guid

\* _process_entries, lines 227-357: one iteration of the loop over the entries:
\* derive the guid, SELECT the existing item, build the new row
process_entries_check(t) ==
    /\ tasks[t].pc = "entries"
    /\ LET task  == tasks[t]
           entry == Docs[task.response.doc].entries[task.i]
           guid  == get_entry_guid(entry)
           new   == guid # None /\ ~ item_exists(task.feed_id, guid)
           last  == task.i = Len(Docs[task.response.doc].entries)
       IN tasks' = [tasks EXCEPT ![t] =
             [task EXCEPT
                !.i = @ + 1,
                !.items_to_insert =
                    IF new THEN Append(@, item_data(task.feed_id, guid, entry)) ELSE @,
                !.pc = IF last THEN "insert" ELSE "entries"]]
    /\ UNCHANGED <<now, feeds, items, fetch_log, jobs, sched, host_semaphores, events, api, worker, hist, categories, read_state, requests, sse>>

\* a table without the unique constraint takes every batch
NoConstraint(rows, batch) == FALSE

\* UniqueConstraint uq_items_feed_guid: a batch is rejected as a whole when one
\* of its rows repeats the (feed_id, guid) of a stored row or of another row of
\* the batch
UniqueViolation(rows, batch) ==
    \/ \E i \in 1..Len(batch) : \E r \in BagToSet(rows) :
          r.feed_id = batch[i].feed_id /\ r.guid = batch[i].guid
    \/ \E i, j \in 1..Len(batch) :
          i < j /\ batch[i].feed_id = batch[j].feed_id /\ batch[i].guid = batch[j].guid

\* the rows of a batch as a bag
BatchRows(batch) ==
    [r \in {batch[i] : i \in 1..Len(batch)} |->
       Cardinality({i \in 1..Len(batch) : batch[i] = r})]

\* a database without the foreign keys of the migration
NoForeignKey(fs, feed_id) == FALSE

\* 001_initial_migration.py, lines 57 and 91: items.feed_id and
\* fetch_log.feed_id reference feeds.id, without ON DELETE CASCADE
ForeignKeyViolation(fs, feed_id) == feed_id \notin DOMAIN fs

\* get_db_session: the frame of a task after a write it awaits has raised. Inside
\* the try block the exception reaches the except branch (fetcher.py 211-216);
\* raised by a write of the except branch it leaves fetch_feed.
Raised(task) ==
    IF ~ task.handling
    THEN [task EXCEPT !.pc = "run", !.todo = Stamp(OnException, now),
                      !.result = Result("error", 0), !.handling = TRUE,
                      !.failed = Some(task.writes)]
    ELSE [task EXCEPT !.todo = <<>>, !.escaped = TRUE,
                      !.failed = IF @ = None THEN Some(task.writes) ELSE @]

\* _process_entries, lines 359-365: the bulk INSERT and its commit. An
\* IntegrityError leaves the session (rolled back on close) and reaches the
\* except branch of fetch_feed.
process_entries_insert(t) ==
    /\ tasks[t].pc = "insert"
    /\ LET task  == tasks[t]
           batch == task.items_to_insert
           d     == task.response.doc
           missing == {i \in 1..Len(Docs[d].entries) :
                         /\ get_entry_guid(Docs[d].entries[i]) # None
                         /\ get_entry_guid(Docs[d].entries[i])
                              \notin Guids(ItemsOf(task.feed_id))}
       IN IF UniqueViolation(items, batch)
          THEN /\ tasks' = [tasks EXCEPT ![t] =
                     [task EXCEPT !.pc = "run", !.todo = Stamp(OnException, now),
                                  !.result = Result("error", 0),
                                  !.handling = TRUE,
                                  !.conflict = TRUE,
                                  !.absent = Cardinality(missing)]]
               /\ UNCHANGED items
          ELSE IF batch # <<>> /\ ForeignKeyViolation(feeds, task.feed_id)
          THEN /\ tasks' = [tasks EXCEPT ![t] =
                     [Raised(task) EXCEPT !.absent = Cardinality(missing)]]
               /\ UNCHANGED items
          ELSE /\ items' = items (+) BatchRows(batch)
               /\ tasks' = [u \in TaskIds |->
                     IF u = t
                     THEN [task EXCEPT
                             !.pc = "run",
                             !.todo = Stamp(OnSuccess(task, d, Len(batch)), now),
                             !.result = Result("success", Len(batch)),
                             !.writes = IF batch # <<>> THEN Append(@, "items") ELSE @,
                             !.absent = Cardinality(missing)]
                     ELSE tasks[u]]
    /\ UNCHANGED <<now, feeds, fetch_log, jobs, sched, host_semaphores, events, api, worker, hist, categories, read_state, requests, sse>>

\* the UPDATE without the "is not None" tests: absent validators clear the columns
update_data_overwrite(row, op) ==
    [row EXCEPT
       !.last_fetch_at = Some(op.at),
       !.last_status = Some(op.status_code),
       !.updated_at = op.at,
       !.etag = op.etag,
       !.last_modified = op.last_modified,
       !.title = op.title]

\* _update_feed_status, lines 391-402: the row after the UPDATE's values
update_data(row, op) ==
    [row EXCEPT
       !.last_fetch_at = Some(op.at),
       !.last_status = Some(op.status_code),
       !.updated_at = op.at,
       !.etag = IF op.etag # None THEN op.etag ELSE @,
       !.last_modified = IF op.last_modified # None THEN op.last_modified ELSE @,
       !.title = IF op.title # None THEN op.title ELSE @]

\* _update_feed_status, lines 390-406
update_feed_status(t) ==
    /\ tasks[t].pc = "run"
    /\ tasks[t].todo # <<>>
    /\ Head(tasks[t].todo).op = "upd"
    /\ LET task == tasks[t]
           op   == Head(task.todo)
           f    == task.feed_id
       IN /\ feeds' = IF f \in DOMAIN feeds
                      THEN [feeds EXCEPT ![f] = update_data(@, op)]
                      ELSE feeds
          /\ tasks' = [tasks EXCEPT ![t] =
                         [task EXCEPT !.todo = Tail(@), !.writes = Append(@, "feed")]]
    /\ UNCHANGED <<now, items, fetch_log, jobs, sched, host_semaphores, events, api, worker, hist, categories, read_state, requests, sse>>

\* the FetchLog row of _log_fetch, lines 418-426 (id, duration_ms and
\* fetched_at, which no property reads, are left out)
FetchLogRow(feed_id, op) ==
    [feed_id |-> feed_id, status_code |-> op.status_code, bytes |-> op.bytes,
     error |-> op.error]

\* _log_fetch, lines 417-428
log_fetch(t) ==
    /\ tasks[t].pc = "run"
    /\ tasks[t].todo # <<>>
    /\ Head(tasks[t].todo).op = "log"
    /\ LET task == tasks[t]
           op   == Head(task.todo)
       IN IF ForeignKeyViolation(feeds, task.feed_id)
          THEN /\ tasks' = [tasks EXCEPT ![t] = Raised(task)]
               /\ UNCHANGED fetch_log
          ELSE /\ fetch_log' = fetch_log (+) SetToBag({FetchLogRow(task.feed_id, op)})
               /\ tasks' = [tasks EXCEPT ![t] =
                              [task EXCEPT !.todo = Stamp(Tail(@), now),
                                           !.writes = Append(@, "log")]]
    /\ UNCHANGED <<now, feeds, items, jobs, sched, host_semaphores, events, api, worker, hist, categories, read_state, requests, sse>>

\* _publish_new_items_event, lines 433-438
NewItemsEvent(feed_id, count) ==
    [type |-> "new_items", feed_id |-> feed_id, count |-> count, enc |-> "repr"]

\* _publish_fetch_status, lines 129-139
FetchStatusEvent(result, feed_id) ==
    [type |-> "fetch_status", feed_id |-> feed_id,
     status |-> IF result.status = "success" THEN "ok" ELSE "error", enc |-> "json"]

\* fetch_feed publishing on every outcome, new items or not
PublishedAlways(result, feed_id) == SetToBag({NewItemsEvent(feed_id, result.new_items)})

\* fetch_feed, lines 201-203: the messages the end of the 200 path publishes
Published(result, feed_id) ==
    IF result.status = "success" /\ result.new_items > 0
    THEN SetToBag({NewItemsEvent(feed_id, result.new_items)})
    ELSE EmptyBag

\* the gate given back only where fetch_feed returns a result
ReleaseOnReturn(sems, task) ==
    IF task.escaped THEN sems ELSE [sems EXCEPT ![Host(task.feed_id)] = @ + 1]

\* fetch_feed, line 119: the exit of "async with semaphore", by a return or by
\* an exception
Release(sems, task) == [sems EXCEPT ![Host(task.feed_id)] = @ + 1]

\* fetch_feed, lines 201-209 and the exit of "async with": publish new_items when
\* there are any, release the gate, return the result
fetch_feed_return(t) ==
    /\ tasks[t].pc = "run"
    /\ tasks[t].todo = <<>>
    /\ events' = events (+) Published(tasks[t].result, tasks[t].feed_id)
    /\ host_semaphores' = Release(host_semaphores, tasks[t])
    /\ tasks' = [tasks EXCEPT ![t] = [@ EXCEPT !.pc = "status"]]
    /\ hist' = [hist EXCEPT
                  !.last_body[tasks[t].feed_id] =
                      IF tasks[t].response.status_code = 200 /\ tasks[t].alone
                      THEN Some(tasks[t].response.doc) ELSE None,
                  !.refetched = IF hist.requeued[tasks[t].feed_id] # <<>>
                                THEN @ \cup {tasks[t].feed_id} ELSE @]
    /\ UNCHANGED <<now, feeds, items, fetch_log, jobs, sched, api, worker, categories, read_state, requests, sse>>

\* _process_job, lines 97-110, and _publish_fetch_status: publish the outcome;
\* the task is done and leaves active_tasks
publish_fetch_status(t) ==
    /\ tasks[t].pc = "status"
    /\ events' = events (+) SetToBag({FetchStatusEvent(tasks[t].result, tasks[t].feed_id)})
    /\ tasks' = [tasks EXCEPT ![t] = NoTask]
    /\ worker' = [worker EXCEPT !.gathered = @ \ {t}]
    /\ UNCHANGED <<now, feeds, items, fetch_log, jobs, sched, host_semaphores, api, hist, categories, read_state, requests, sse>>

(* ------------------------------------------------------------------ *)
(* Environment                                                          *)
(* ------------------------------------------------------------------ *)

\* main.py: the worker process (scheduler, consumer and their tasks) is killed and
\* started again. The open transaction of a tick is rolled back, the popped jobs
\* and the gates are gone; the store and the Redis list stay.
crash ==
    /\ hist.crashes < MaxCrashes
    /\ tasks' = [t \in TaskIds |-> NoTask]
    /\ host_semaphores' = <<>>
    /\ sched' = SchedIdle
    /\ hist' = [hist EXCEPT
                  !.crashes = @ + 1,
                  !.due = {}, !.rows = <<>>, !.inflight = {}, !.pushed = <<>>,
                  !.lost = [f \in Feeds |->
                              LET dying == {t \in TaskIds : /\ tasks[t].pc \in InGate \cup {"gate"}
                                                            /\ tasks[t].feed_id = f}
                              IN IF dying = {} THEN @[f]
                                 ELSE Some(CHOOSE x \in {tasks[t].job.scheduled_at : t \in dying} :
                                             \A t \in dying : tasks[t].job.scheduled_at <= x)]]
    /\ UNCHANGED <<now, feeds, items, fetch_log, jobs, events, api, worker, categories, read_state, requests, sse>>

\* database.py, get_db_session: the database refuses a write that a task awaits
\* (the bulk INSERT, the UPDATE of the Feed row or the INSERT of the FetchLog row)
\* and the session closes without a commit. Inside the try block the exception
\* reaches the except branch (fetcher.py 211-216); raised by a write of the
\* except branch it leaves fetch_feed through "async with" and reaches the except
\* branch of _process_job (consumer.py 113-122).
db_write_fails(t) ==
    /\ \/ tasks[t].pc = "insert"
       \/ tasks[t].pc = "run" /\ tasks[t].todo # <<>>
    /\ tasks' = [tasks EXCEPT ![t] = Raised(tasks[t])]
    /\ UNCHANGED <<now, feeds, items, fetch_log, jobs, sched, host_semaphores, events, api, worker, hist, categories, read_state, requests, sse>>

\* fetch_feed, line 203: redis.publish raises inside _publish_new_items_event,
\* which has no try of its own; the exception reaches the except branch of
\* fetch_feed
publish_new_items_fails(t) ==
    /\ tasks[t].pc = "run"
    /\ tasks[t].todo = <<>>
    /\ ~ tasks[t].handling
    /\ tasks[t].result.status = "success"
    /\ tasks[t].result.new_items > 0
    /\ tasks' = [tasks EXCEPT ![t] =
          [@ EXCEPT !.todo = Stamp(OnException, now), !.result = Result("error", 0),
                    !.handling = TRUE, !.unpublished = TRUE]]
    /\ UNCHANGED <<now, feeds, items, fetch_log, jobs, sched, host_semaphores, events, api, worker, hist, categories, read_state, requests, sse>>

\* _publish_fetch_status, lines 126-142: redis.publish raises, the except branch
\* prints the error; the task is done
publish_fetch_status_fails(t) ==
    /\ tasks[t].pc = "status"
    /\ tasks' = [tasks EXCEPT ![t] = NoTask]
    /\ worker' = [worker EXCEPT !.gathered = @ \ {t}]
    /\ UNCHANGED <<now, feeds, items, fetch_log, jobs, sched, host_semaphores, events, api, hist, categories, read_state, requests, sse>>

(* ------------------------------------------------------------------ *)
(* main.py: WorkerManager.stop                                          *)
(* ------------------------------------------------------------------ *)

\* WorkerManager.stop, lines 42-49, and FeedScheduler.stop: on the stop signal
\* the manager and the scheduler clear their running flags
worker_stop ==
    /\ worker.pc = "up"
    /\ worker' = [worker EXCEPT !.pc = "stop_consumer", !.running = FALSE,
                                !.sched_running = FALSE]
    /\ UNCHANGED <<now, feeds, items, fetch_log, jobs, sched, tasks, host_semaphores, events, api, hist, categories, read_state, requests, sse>>

\* JobConsumer.stop, lines 44-51: clear the running flag and gather the tasks
\* active_tasks holds now; with none, close the HTTP client at once
consumer_stop ==
    /\ worker.pc = "stop_consumer"
    /\ LET active == {t \in TaskIds : tasks[t].pc # "free"}
       IN worker' = IF active = {}
                    THEN [worker EXCEPT !.pc = "stopped", !.consumer_running = FALSE,
                                        !.http_closed = TRUE]
                    ELSE [worker EXCEPT !.pc = "gather", !.consumer_running = FALSE,
                                        !.gathered = active]
    /\ UNCHANGED <<now, feeds, items, fetch_log, jobs, sched, tasks, host_semaphores, events, api, hist, categories, read_state, requests, sse>>

\* JobConsumer.stop, lines 49-53: the gathered tasks are done; fetcher.close()
\* closes the HTTP client
consumer_close ==
    /\ worker.pc = "gather"
    /\ worker.gathered = {}
    /\ worker' = [worker EXCEPT !.pc = "stopped", !.http_closed = TRUE]
    /\ UNCHANGED <<now, feeds, items, fetch_log, jobs, sched, tasks, host_semaphores, events, api, hist, categories, read_state, requests, sse>>

\* _consume_jobs, lines 59-65: a brpop awaited at the stop returns None after its
\* timeout; the loop test ends the coroutine
brpop_timeout ==
    /\ ~ worker.consumer_running
    /\ worker.brpops > 0
    /\ worker' = [worker EXCEPT !.brpops = @ - 1]
    /\ UNCHANGED <<now, feeds, items, fetch_log, jobs, sched, tasks, host_semaphores, events, api, hist, categories, read_state, requests, sse>>

Stop ==
    \/ worker_stop
    \/ consumer_stop
    \/ consumer_close
    \/ brpop_timeout

(* ------------------------------------------------------------------ *)
(* api: routers/feeds.py, routers/maintenance.py                        *)
(* ------------------------------------------------------------------ *)

\* refresh_feed, lines 170-182: the feed exists; next_run_at = utcnow(), commit
refresh_feed_commit(f) ==
    /\ api.pc = "idle"
    /\ api.calls < MaxCalls
    /\ f \in DOMAIN feeds
    /\ feeds' = [feeds EXCEPT ![f].next_run_at = now]
    /\ api' = [api EXCEPT !.pc = "refresh", !.feed = f]
    /\ hist' = [hist EXCEPT !.refreshed[f] = "pending"]
    /\ UNCHANGED <<now, items, fetch_log, jobs, sched, tasks, host_semaphores, events, worker, categories, read_state, requests, sse>>

\* refresh_feed, lines 185-197: lpush str(job_data), answer the request
refresh_feed_push ==
    /\ api.pc = "refresh"
    /\ jobs' = <<Job(api.feed, now, "repr")>> \o jobs
    /\ api' = ApiIdle(api.calls + 1)
    /\ UNCHANGED <<now, feeds, items, fetch_log, sched, tasks, host_semaphores, events, worker, hist, categories, read_state, requests, sse>>

\* remove_all_feed_items, lines 32-49: delete the read states and the items,
\* commit, select the feeds (in any order)
remove_all_feed_items_delete ==
    /\ api.pc = "idle"
    /\ api.calls < MaxCalls
    /\ items' = EmptyBag
    /\ read_state' = EmptyBag
    /\ \E s \in {q \in [1..Cardinality(DOMAIN feeds) -> DOMAIN feeds] :
                   \A i, j \in DOMAIN q : i # j => q[i] # q[j]} :
          api' = [api EXCEPT !.pc = "purge", !.todo = s]
    /\ hist' = [hist EXCEPT !.purged = TRUE]
    /\ UNCHANGED <<now, feeds, fetch_log, jobs, sched, tasks, host_semaphores, events, worker, categories, requests, sse>>

\* remove_all_feed_items, lines 56-70: one iteration of the loop: set
\* next_run_at = utcnow() on the loaded Feed, lpush json.dumps(job_data)
remove_all_feed_items_enqueue ==
    /\ api.pc = "purge"
    /\ api.todo # <<>>
    /\ jobs' = <<Job(Head(api.todo), now, "json")>> \o jobs
    /\ api' = [api EXCEPT !.todo = Tail(@),
                          !.updates = Append(@, [id |-> Head(api.todo), next_run_at |-> now])]
    /\ UNCHANGED <<now, feeds, items, fetch_log, sched, tasks, host_semaphores, events, worker, hist, categories, read_state, requests, sse>>

\* remove_all_feed_items, lines 73-84: commit the next_run_at updates, answer
\* the request
remove_all_feed_items_commit ==
    /\ api.pc = "purge"
    /\ api.todo = <<>>
    /\ feeds' = [f \in DOMAIN feeds |->
                   IF \E i \in 1..Len(api.updates) : api.updates[i].id = f
                   THEN [feeds[f] EXCEPT !.next_run_at =
                           (CHOOSE u \in {api.updates[i] : i \in 1..Len(api.updates)} :
                               u.id = f).next_run_at]
                   ELSE feeds[f]]
    /\ api' = ApiIdle(api.calls + 1)
    /\ UNCHANGED <<now, items, fetch_log, jobs, sched, tasks, host_semaphores, events, worker, hist, categories, read_state, requests, sse>>

\* an OPML document of one level: every url is absent, an outline of the body
\* or an outline inside the group outline of a category (no url twice)
CategoryNames == {"a", "b"}

Places == {"absent", "body"} \cup CategoryNames

OpmlDocs == [Feeds -> Places]

\* the documents without group outlines that name a feed
FlatDocs == {doc \in OpmlDocs : /\ \A f \in Feeds : doc[f] \in {"absent", "body"}
                                /\ \E f \in Feeds : doc[f] = "body"}

\* the outlines with an xmlUrl
DocumentUrls(doc) == {f \in Feeds : doc[f] # "absent"}

\* import_opml, lines 162-168, and process_outline_group, lines 71-80: a url
\* already stored is skipped
FeedsToCreate(fs, doc) == DocumentUrls(doc) \ DOMAIN fs

\* process_outline_group, lines 46-49 and 95-97: the category of a group outline
\* (got or created) and the new feeds appended to it
CategoriesToLink(fs, doc) ==
    [c \in {doc[f] : f \in DocumentUrls(doc)} \cap CategoryNames |->
       {f \in FeedsToCreate(fs, doc) : doc[f] = c}]

\* import_opml, lines 125-195: parse the document and, for every outline whose
\* url is not stored yet, add a Feed to the session, under the category of its
\* group outline
import_opml_read(doc) ==
    /\ api.pc = "idle"
    /\ api.calls < MaxCalls
    /\ api' = [api EXCEPT !.pc = "import",
                          !.rows = [f \in FeedsToCreate(feeds, doc) |->
                                      NewFeedRow(now, DefaultInterval)],
                          !.categories = CategoriesToLink(feeds, doc)]
    /\ UNCHANGED <<now, feeds, items, fetch_log, jobs, sched, tasks, host_semaphores, events, worker, hist, categories, read_state, requests, sse>>

\* import_opml, lines 197-210: commit; with no feed created, answer
import_opml_commit ==
    /\ api.pc = "import"
    /\ DOMAIN api.rows \cap DOMAIN feeds = {}
    /\ feeds' = [f \in DOMAIN feeds \cup DOMAIN api.rows |->
                   IF f \in DOMAIN feeds THEN feeds[f] ELSE api.rows[f]]
    /\ api' = IF DOMAIN api.rows = {}
              THEN [ApiIdle(api.calls + 1) EXCEPT !.response = "completed"]
              ELSE [api EXCEPT !.pc = "import_publish"]
    /\ categories' = [c \in DOMAIN categories \cup DOMAIN api.categories |->
                        (IF c \in DOMAIN categories THEN categories[c] ELSE {})
                           \cup (IF c \in DOMAIN api.categories THEN api.categories[c] ELSE {})]
    /\ hist' = [hist EXCEPT !.imported = @ \cup DOMAIN api.rows]
    /\ UNCHANGED <<now, items, fetch_log, jobs, sched, tasks, host_semaphores, events, worker, read_state, requests, sse>>

\* import_opml, lines 200-210: publish "check_feeds" on rss:scheduler (a channel
\* the worker does not subscribe to) and answer
import_opml_publish ==
    /\ api.pc = "import_publish"
    /\ api' = [ApiIdle(api.calls + 1) EXCEPT !.response = "completed",
                                             !.created = Cardinality(DOMAIN api.rows)]
    /\ UNCHANGED <<now, feeds, items, fetch_log, jobs, sched, tasks, host_semaphores, events, worker, hist, categories, read_state, requests, sse>>

\* import_opml, lines 201-203 and 217-225: get_redis or publish raises; the
\* exception reaches "except Exception", which rolls back the (already
\* committed) session and answers 500 "Import failed"
import_opml_publish_fails ==
    /\ api.pc = "import_publish"
    /\ api' = [ApiIdle(api.calls + 1) EXCEPT !.response = "error"]
    /\ UNCHANGED <<now, feeds, items, fetch_log, jobs, sched, tasks, host_semaphores, events, worker, hist, categories, read_state, requests, sse>>

\* export_opml, lines 237-244: select(Feed).outerjoin(Category.feeds): the
\* relationship names its left side, the rows are those of categories LEFT
\* OUTER JOIN category_feed and feeds
CategoryFeedJoin ==
    UNION {IF categories[c] \cap DOMAIN feeds = {}
           THEN {[category |-> Some(c), feed |-> None]}
           ELSE {[category |-> Some(c), feed |-> Some(f)] :
                    f \in categories[c] \cap DOMAIN feeds} : c \in DOMAIN categories}

\* export_opml, line 240: WHERE categories.id IS NULL
UncategorizedFeeds ==
    {r.feed[1] : r \in {q \in CategoryFeedJoin : q.category = None /\ q.feed # None}}

\* export_opml, lines 228-295: select the categories and the uncategorised
\* feeds, write the outlines. category.feeds (line 258) is a lazy relationship
\* read on an AsyncSession, which raises; feed.description (lines 271, 282) is
\* an attribute the Feed model does not have. No try: answer 500.
export_opml ==
    /\ api.pc = "idle"
    /\ api.calls < MaxCalls
    /\ api' = IF DOMAIN categories # {} \/ UncategorizedFeeds # {}
              THEN [ApiIdle(api.calls + 1) EXCEPT !.response = "export_failed"]
              ELSE [ApiIdle(api.calls + 1) EXCEPT
                      !.response = "exported",
                      !.document = [f \in Feeds |->
                                      IF f \in UncategorizedFeeds THEN "body" ELSE "absent"]]
    /\ UNCHANGED <<now, feeds, items, fetch_log, jobs, sched, tasks, host_semaphores, events, worker, hist, categories, read_state, requests, sse>>

\* the import of any document of OpmlDocs
ImportDocument ==
    \/ \E doc \in OpmlDocs : import_opml_read(doc)
    \/ import_opml_commit
    \/ import_opml_publish
    \/ import_opml_publish_fails

\* the primary key of read_state (migration 001, line 98)
PrimaryKeyViolation(rows, item_id) == \E r \in BagToSet(rows) : r.item_id = item_id

\* update_read_status, lines 107-115: select the Item, 404 when there is none
update_read_status_item(r) ==
    /\ requests[r].pc = "item"
    /\ requests' = [requests EXCEPT ![r] =
          IF \E row \in BagToSet(items) : ItemKey(row) = requests[r].item_id
          THEN [@ EXCEPT !.pc = "state"]
          ELSE [@ EXCEPT !.pc = "done", !.response = "not_found"]]
    /\ UNCHANGED <<now, feeds, items, fetch_log, jobs, sched, tasks, host_semaphores, events, api, worker, hist, categories, read_state, sse>>

\* update_read_status, lines 117-124: select the ReadState of the item; with
\* none, add a new one to the session
update_read_status_state(r) ==
    /\ requests[r].pc = "state"
    /\ LET rows == {row \in BagToSet(read_state) : row.item_id = requests[r].item_id}
       IN requests' = [requests EXCEPT ![r] =
             [@ EXCEPT !.pc = "commit",
                       !.found = IF rows = {} THEN None ELSE Some(CHOOSE row \in rows : TRUE)]]
    /\ UNCHANGED <<now, feeds, items, fetch_log, jobs, sched, tasks, host_semaphores, events, api, worker, hist, categories, read_state, sse>>

\* update_read_status, lines 126-139: set the fields the body carries and commit.
\* A new ReadState is an INSERT, refused when the key is stored by now: the
\* handler has no except, the request fails with 500. A loaded ReadState is an
\* UPDATE of the columns whose value changed.
update_read_status_commit(r) ==
    /\ requests[r].pc = "commit"
    /\ LET req == requests[r]
           read_at(old) == IF req.read = None THEN old
                           ELSE IF req.read[1] THEN Some(now) ELSE None
           starred(old) == IF req.starred = None THEN old ELSE req.starred[1]
       IN IF req.found = None
          THEN IF PrimaryKeyViolation(read_state, req.item_id)
               THEN /\ requests' = [requests EXCEPT ![r] =
                                      [@ EXCEPT !.pc = "done", !.response = "error"]]
                    /\ UNCHANGED read_state
               ELSE /\ read_state' = read_state (+)
                          SetToBag({ReadStateRow(req.item_id, read_at(None), starred(FALSE))})
                    /\ requests' = [requests EXCEPT ![r] =
                                      [@ EXCEPT !.pc = "done", !.response = "updated"]]
          ELSE /\ read_state' =
                    LET loaded == req.found[1]
                        stored == {row \in BagToSet(read_state) : row.item_id = req.item_id}
                        new(row) == [row EXCEPT
                            !.read_at = IF read_at(loaded.read_at) # loaded.read_at
                                        THEN read_at(loaded.read_at) ELSE @,
                            !.starred = IF starred(loaded.starred) # loaded.starred
                                        THEN starred(loaded.starred) ELSE @]
                    IN (read_state (-) [row \in stored |-> read_state[row]])
                          (+) SetToBag({new(row) : row \in stored})
               /\ requests' = [requests EXCEPT ![r] =
                                  [@ EXCEPT !.pc = "done", !.response = "updated"]]
    /\ UNCHANGED <<now, feeds, items, fetch_log, jobs, sched, tasks, host_semaphores, events, api, worker, hist, categories, sse>>

ReadStatus ==
    \E r \in Requests :
       \/ update_read_status_item(r)
       \/ update_read_status_state(r)
       \/ update_read_status_commit(r)

(* ------------------------------------------------------------------ *)
(* api: routers/sse.py                                                  *)
(* ------------------------------------------------------------------ *)

\* event_stream, line 22: subscribe to rss:events
sse_subscribe(c) ==
    /\ sse[c].pc = "subscribe"
    /\ sse' = [sse EXCEPT ![c] = [@ EXCEPT !.pc = "connected", !.subscribed = TRUE]]
    /\ UNCHANGED <<now, feeds, items, fetch_log, jobs, sched, tasks, host_semaphores, events, api, worker, hist, categories, read_state, requests>>

\* event_stream, lines 22 and 73-76: subscribe raises; the except branch prints,
\* the finally block follows
sse_subscribe_fails(c) ==
    /\ sse[c].pc = "subscribe"
    /\ sse' = [sse EXCEPT ![c] = [@ EXCEPT !.pc = "unsubscribe"]]
    /\ UNCHANGED <<now, feeds, items, fetch_log, jobs, sched, tasks, host_semaphores, events, api, worker, hist, categories, read_state, requests>>

\* event_stream, lines 25-38: yield the "connected" event
sse_yield_connected(c) ==
    /\ sse[c].pc = "connected"
    /\ sse' = [sse EXCEPT ![c] = [@ EXCEPT !.pc = "check", !.yielded = Append(@, "connected")]]
    /\ UNCHANGED <<now, feeds, items, fetch_log, jobs, sched, tasks, host_semaphores, events, api, worker, hist, categories, read_state, requests>>

\* event_stream, lines 40-43: the loop test; break when the client has gone
sse_is_disconnected(c) ==
    /\ sse[c].pc = "check"
    /\ sse' = [sse EXCEPT ![c] =
                 IF sse[c].disconnected
                 THEN [@ EXCEPT !.pc = "unsubscribe", !.observed = TRUE]
                 ELSE [@ EXCEPT !.pc = "wait"]]
    /\ UNCHANGED <<now, feeds, items, fetch_log, jobs, sched, tasks, host_semaphores, events, api, worker, hist, categories, read_state, requests>>

\* event_stream, lines 45-71: wait for a message up to the heartbeat interval: a
\* message of type "message" is forwarded, any other answer is dropped, a
\* timeout yields a heartbeat (last_heartbeat is at least the interval old)
sse_get_message(c, outcome) ==
    /\ sse[c].pc = "wait"
    /\ Len(sse[c].yielded) < MaxEvents
    /\ sse' = [sse EXCEPT ![c] =
                 [@ EXCEPT !.pc = "check",
                           !.yielded = IF outcome = "message" THEN Append(@, "message")
                                       ELSE IF outcome = "timeout" THEN Append(@, "heartbeat")
                                       ELSE @]]
    /\ UNCHANGED <<now, feeds, items, fetch_log, jobs, sched, tasks, host_semaphores, events, api, worker, hist, categories, read_state, requests>>

\* event_stream, lines 47-50 and 73-76: get_message raises something that is not
\* a TimeoutError; the outer except branch prints, the finally block follows
sse_get_message_fails(c) ==
    /\ sse[c].pc = "wait"
    /\ sse' = [sse EXCEPT ![c] = [@ EXCEPT !.pc = "unsubscribe"]]
    /\ UNCHANGED <<now, feeds, items, fetch_log, jobs, sched, tasks, host_semaphores, events, api, worker, hist, categories, read_state, requests>>

\* the client closes the connection
client_disconnect(c) ==
    /\ sse[c].pc \notin {"none", "done"}
    /\ ~ sse[c].disconnected
    /\ sse' = [sse EXCEPT ![c] = [@ EXCEPT !.disconnected = TRUE]]
    /\ UNCHANGED <<now, feeds, items, fetch_log, jobs, sched, tasks, host_semaphores, events, api, worker, hist, categories, read_state, requests>>

\* event_stream, line 77: unsubscribe
sse_unsubscribe(c) ==
    /\ sse[c].pc = "unsubscribe"
    /\ sse' = [sse EXCEPT ![c] = [@ EXCEPT !.pc = "close", !.subscribed = FALSE,
                                           !.unsubscribes = @ + 1]]
    /\ UNCHANGED <<now, feeds, items, fetch_log, jobs, sched, tasks, host_semaphores, events, api, worker, hist, categories, read_state, requests>>

\* event_stream, line 77: unsubscribe raises (it sends UNSUBSCRIBE to a Redis
\* that cannot be reached); the exception leaves the finally block, line 78 is
\* not run
sse_unsubscribe_fails(c) ==
    /\ sse[c].pc = "unsubscribe"
    /\ sse' = [sse EXCEPT ![c] = [@ EXCEPT !.pc = "done", !.unsubscribes = @ + 1,
                                           !.raised = TRUE]]
    /\ UNCHANGED <<now, feeds, items, fetch_log, jobs, sched, tasks, host_semaphores, events, api, worker, hist, categories, read_state, requests>>

\* event_stream, line 78: close the subscription
sse_close(c) ==
    /\ sse[c].pc = "close"
    /\ sse' = [sse EXCEPT ![c] = [@ EXCEPT !.pc = "done", !.closes = @ + 1]]
    /\ UNCHANGED <<now, feeds, items, fetch_log, jobs, sched, tasks, host_semaphores, events, api, worker, hist, categories, read_state, requests>>

EventStream ==
    \E c \in Clients :
       \/ sse_subscribe(c)
       \/ sse_subscribe_fails(c)
       \/ sse_yield_connected(c)
       \/ sse_is_disconnected(c)
       \/ \E outcome \in {"message", "other", "timeout"} : sse_get_message(c, outcome)
       \/ sse_get_message_fails(c)
       \/ client_disconnect(c)
       \/ sse_unsubscribe(c)
       \/ sse_unsubscribe_fails(c)
       \/ sse_close(c)

\* the FetchLog rows of a feed
LogsOf(f) == [r \in {x \in BagToSet(fetch_log) : x.feed_id = f} |-> fetch_log[r]]

\* delete_feed, lines 288-301: select the Feed (404 when there is none) and mark
\* it deleted; Session.delete loads Feed.items and Feed.fetch_logs, the
\* relationships with cascade "all, delete-orphan" (models/feed.py)
delete_feed_load(f) ==
    /\ api.pc = "idle"
    /\ api.calls < MaxCalls
    /\ api' = IF f \in DOMAIN feeds
              THEN [api EXCEPT !.pc = "delete", !.feed = f,
                               !.loaded = [items |-> ItemsOf(f), logs |-> LogsOf(f)]]
              ELSE [ApiIdle(api.calls + 1) EXCEPT !.response = "not_found"]
    /\ UNCHANGED <<now, feeds, items, fetch_log, jobs, sched, tasks, host_semaphores, events, worker, hist, categories, read_state, requests, sse>>

\* delete_feed, lines 302-307: the commit flushes a DELETE for every loaded Item
\* and FetchLog and then for the Feed. A row of the feed committed since the load
\* still references the Feed: its foreign key has no ON DELETE CASCADE, the
\* DELETE of the Feed is refused, the transaction is rolled back, answer 500.
\* The rows of category_feed go with the Feed (models/category.py 19-24). A
\* ReadState row of an Item of the feed blocks the DELETE of the Item as well:
\* read_state.item_id is a primary key that references items.id, Item.read_state
\* has no delete cascade (models/item.py, migration 001 lines 94-97).
delete_feed_commit ==
    /\ api.pc = "delete"
    /\ LET f == api.feed
       IN IF /\ f \in DOMAIN feeds
             /\ ItemsOf(f) = api.loaded.items
             /\ LogsOf(f) = api.loaded.logs
             /\ \A r \in BagToSet(read_state) : r.item_id[1] # f
          THEN /\ feeds' = [g \in DOMAIN feeds \ {f} |-> feeds[g]]
               /\ items' = items (-) api.loaded.items
               /\ fetch_log' = fetch_log (-) api.loaded.logs
               /\ categories' = [c \in DOMAIN categories |-> categories[c] \ {f}]
               /\ api' = [ApiIdle(api.calls + 1) EXCEPT !.response = "deleted", !.feed = f]
          ELSE /\ api' = [ApiIdle(api.calls + 1) EXCEPT !.response = "error", !.feed = f]
               /\ UNCHANGED <<feeds, items, fetch_log, categories>>
    /\ UNCHANGED <<now, jobs, sched, tasks, host_semaphores, events, worker, hist, read_state, requests, sse>>

Delete ==
    \/ \E f \in Feeds : delete_feed_load(f)
    \/ delete_feed_commit

\* the interval_seconds a client may send (schemas/feed.py: any integer)
RequestedIntervals == {-60, 60, 900}

\* FeedUpdate.validate_interval, schemas/feed.py 27-31
validate_interval(v) == v >= 60

\* FeedCreate, schemas/feed.py 8-18: interval_seconds has no validator
FeedCreateValid(v) == TRUE

\* create_feed, lines 210-228: next_run_at = utcnow() + 5 s, the Feed takes
\* feed_data.interval_seconds as sent; commit. A url already stored violates the
\* unique constraint: rollback, answer 400.
create_feed_commit(f, interval_seconds) ==
    /\ api.pc = "idle"
    /\ api.calls < MaxCalls
    /\ FeedCreateValid(interval_seconds)
    /\ IF f \in DOMAIN feeds
       THEN /\ api' = [ApiIdle(api.calls + 1) EXCEPT !.response = "exists"]
            /\ UNCHANGED feeds
       ELSE /\ feeds' = [g \in DOMAIN feeds \cup {f} |->
                           IF g = f THEN NewFeedRow(now, interval_seconds) ELSE feeds[g]]
            /\ api' = [api EXCEPT !.pc = "create", !.feed = f,
                                  !.rows = [g \in {f} |-> NewFeedRow(now, interval_seconds)]]
    /\ UNCHANGED <<now, items, fetch_log, jobs, sched, tasks, host_semaphores, events, worker, hist, categories, read_state, requests, sse>>

\* create_feed, lines 230-239: lpush str(job_data) with scheduled_at =
\* next_run_at, answer 201
create_feed_push ==
    /\ api.pc = "create"
    /\ jobs' = <<Job(api.feed, api.rows[api.feed].next_run_at, "repr")>> \o jobs
    /\ api' = [ApiIdle(api.calls + 1) EXCEPT !.response = "created", !.feed = api.feed]
    /\ UNCHANGED <<now, feeds, items, fetch_log, sched, tasks, host_semaphores, events, worker, hist, categories, read_state, requests, sse>>

\* the bodies a client may send to PATCH /feeds/{id}: model_dump(exclude_unset)
\* of a FeedUpdate (schemas/feed.py 20-31), the fields that were provided
RequestedUpdates ==
    {[interval_seconds |-> v] : v \in RequestedIntervals} \cup {[title |-> Some("Mine")]}

\* update_feed, lines 253-282: a request that passes FeedUpdate (else 422) for a
\* stored feed (else 404): setattr of every provided field, commit
update_feed(f, feed_update) ==
    /\ api.pc = "idle"
    /\ api.calls < MaxCalls
    /\ IF "interval_seconds" \in DOMAIN feed_update
          /\ ~ validate_interval(feed_update.interval_seconds)
       THEN /\ api' = [ApiIdle(api.calls + 1) EXCEPT !.response = "invalid"]
            /\ UNCHANGED feeds
       ELSE IF f \notin DOMAIN feeds
       THEN /\ api' = [ApiIdle(api.calls + 1) EXCEPT !.response = "not_found"]
            /\ UNCHANGED feeds
       ELSE /\ feeds' = [feeds EXCEPT ![f] =
                           [k \in DOMAIN @ |->
                              IF k \in DOMAIN feed_update THEN feed_update[k]
                              ELSE IF k = "updated_at" THEN now ELSE @[k]]]
            /\ api' = [ApiIdle(api.calls + 1) EXCEPT !.response = "updated", !.feed = f]
    /\ UNCHANGED <<now, items, fetch_log, jobs, sched, tasks, host_semaphores, events, worker, hist, categories, read_state, requests, sse>>

Create ==
    \/ \E f \in Feeds, v \in RequestedIntervals : create_feed_commit(f, v)
    \/ create_feed_push

Update == \E f \in Feeds, feed_update \in RequestedUpdates : update_feed(f, feed_update)

Import ==
    \/ \E doc \in FlatDocs : import_opml_read(doc)
    \/ import_opml_commit
    \/ import_opml_publish
    \/ import_opml_publish_fails

Refresh ==
    \/ \E f \in Feeds : refresh_feed_commit(f)
    \/ refresh_feed_push

Purge ==
    \/ remove_all_feed_items_delete
    \/ remove_all_feed_items_enqueue
    \/ remove_all_feed_items_commit

Scheduler ==
    \/ schedule_feeds_select
    \/ schedule_feeds_push
    \/ schedule_feeds_commit
    \/ scheduler_sleep

\* the steps of the consumer and of its tasks, fetch_feed_response apart
Consumer ==
    \E t \in TaskIds :
       \/ consume_jobs(t)
       \/ fetch_feed_gate(t)
       \/ process_entries_check(t)
       \/ process_entries_insert(t)
       \/ update_feed_status(t)
       \/ log_fetch(t)
       \/ fetch_feed_return(t)
       \/ publish_fetch_status(t)

\* fetch_feed_response of a task, answered by the server behind its feed
Response ==
    \E t \in TaskIds :
       /\ tasks[t].pc = "request"
       /\ fetch_feed_response(t, ServedBy(tasks[t].feed_id))

\* The worker process on a store of feeds, each behind its server.
Next ==
    \/ Scheduler
    \/ Consumer
    \/ Response

Spec == Init /\ [][Next]_vars


\* The worker process, stopped by a signal at any moment.
NextStop ==
    \/ Next
    \/ Stop

SpecStop == Init /\ [][NextStop]_vars

\* The scheduler on a store without feeds and an API process that serves
\* MaxCalls import requests.
InitImport ==
    /\ InitStore
    /\ feeds = <<>>
    /\ jobs = <<>>

NextImport ==
    \/ Scheduler
    \/ Import

SpecImport == InitImport /\ [][NextImport]_vars

\* The scheduler alone (no job is consumed) on every store whose feeds are
\* overdue, due at the first tick or due at a later one.
InitTick ==
    /\ InitStore
    /\ feeds \in {[f \in Feeds |-> FeedRow(f, n[f])] : n \in [Feeds -> {-10, 0, 40}]}
    /\ jobs = <<>>

NextTick == Scheduler

SpecTick == InitTick /\ [][NextTick]_vars

\* The scheduler and an API process that serves MaxCalls refresh requests, on
\* every store of InitTick (no job is consumed).
NextRefresh ==
    \/ Scheduler
    \/ Refresh

SpecRefresh == InitTick /\ [][NextRefresh]_vars

\* The scheduler alone under sustained overload: every feed is due at the first
\* tick and, its interval being one tick, due again at every later tick, so each
\* tick finds more due feeds than scheduler_batch_size.
InitOverload ==
    /\ InitStore
    /\ feeds \in {[f \in Feeds |-> [FeedRow(f, n[f]) EXCEPT !.interval_seconds = TickSeconds]] :
                    n \in [Feeds -> {-20, -10, 0}]}
    /\ jobs = <<>>

SpecOverload == InitOverload /\ [][NextTick]_vars

\* start(), lines 31-38: the loop keeps ticking
SpecOverloadLive == SpecOverload /\ WF_vars(Scheduler)

\* The worker process, killed and restarted at most MaxCrashes times.
NextCrash ==
    \/ Scheduler
    \/ Consumer
    \/ Response
    \/ crash

SpecCrash == Init /\ [][NextCrash]_vars

\* The event loop runs every coroutine that can take a step.
SpecCrashLive ==
    /\ SpecCrash
    /\ WF_vars(Scheduler)
    /\ WF_vars(Consumer)
    /\ WF_vars(Response)

\* a queue of jobs for the given feeds, oldest last
Backlog(s) == [i \in 1..Len(s) |-> Job(s[i], 0, "json")]

\* The consumer on a backlog of jobs, every GET answered by any server.
InitFetch ==
    /\ InitStore
    /\ feeds = [f \in Feeds |-> FeedRow(f, IntervalOf(f))]
    /\ jobs \in {Backlog(s) : s \in UNION {[1..n -> Feeds] : n \in 1..MaxBacklog}}

NextFetch ==
    \/ Consumer
    \/ \E t \in TaskIds, server \in Servers : fetch_feed_response(t, server)

SpecFetch == InitFetch /\ [][NextFetch]_vars

\* the database or Redis fails under a task
Faults ==
    \E t \in TaskIds :
       \/ db_write_fails(t)
       \/ publish_new_items_fails(t)
       \/ publish_fetch_status_fails(t)

\* The consumer on a backlog of jobs, every GET answered by any server, every
\* write and every publish liable to fail.
NextFault ==
    \/ NextFetch
    \/ Faults

SpecFault == InitFetch /\ [][NextFault]_vars

\* The consumer on a backlog of one job, every feed behind its server, and an
\* API process that serves MaxCalls purge requests.
InitPurge ==
    /\ InitStore
    /\ feeds = [f \in Feeds |-> FeedRow(f, IntervalOf(f))]
    /\ jobs \in {Backlog(s) : s \in [1..1 -> Feeds]}

NextPurge ==
    \/ Consumer
    \/ Response
    \/ Purge

SpecPurge == InitPurge /\ [][NextPurge]_vars

\* The consumer on a backlog of as many jobs as it runs tasks, every feed behind
\* its server.
InitGate ==
    /\ InitStore
    /\ feeds = [f \in Feeds |-> FeedRow(f, IntervalOf(f))]
    /\ jobs \in {Backlog(s) : s \in [1..MaxTasks -> Feeds]}

NextGate ==
    \/ Consumer
    \/ Response

SpecGate == InitGate /\ [][NextGate]_vars

(* ------------------------------------------------------------------ *)
(* Properties                                                           *)
(* ------------------------------------------------------------------ *)

\* the tasks inside the "async with semaphore" block of a fetch to host h
InFlightTo(h) == {t \in TaskIds : tasks[t].pc \in InGate /\ Host(tasks[t].feed_id) = h}

\* C1: at every instant, for every host, the number of fetches that have passed
\* the host's gate and have not yet left it (request sent, entries processed,
\* status and log written, gate not yet released) is at most
\* per_host_concurrency.
C1_PerHostGate ==
    \A h \in Hosts : Cardinality(InFlightTo(h)) <= PerHostConcurrency

\* per_host_concurrency fetches are in flight to a host and a further job for
\* the same host waits in front of the gate
C1_Witness ==
    \E h \in Hosts :
       /\ Cardinality(InFlightTo(h)) = PerHostConcurrency
       /\ \E t \in TaskIds : tasks[t].pc = "gate" /\ Host(tasks[t].feed_id) = h

\* C2: in every state of every interleaving of fetches of the same feed, the
\* items table holds no two rows with the same (feed_id, guid).
C2_UniqueFeedGuid ==
    \A r \in BagToSet(items) :
       /\ CopiesIn(r, items) = 1
       /\ \A q \in BagToSet(items) :
             (q.feed_id = r.feed_id /\ q.guid = r.guid) => q = r

\* two fetches of one feed were in the gate together, the second one's INSERT
\* met the row the first had inserted after the second's SELECT
C2_Witness ==
    \E t \in TaskIds :
       /\ tasks[t].pc \in {"run", "status"}
       /\ tasks[t].conflict
       /\ ~ tasks[t].alone
       /\ \E r \in BagToSet(items) :
             /\ r.feed_id = tasks[t].feed_id
             /\ \E i \in 1..Len(tasks[t].items_to_insert) :
                   tasks[t].items_to_insert[i].guid = r.guid

\* the feeds whose next_run_at was <= the tick's now when the tick selected
DueAtTick == {f \in DOMAIN hist.rows : hist.rows[f].next_run_at <= sched.now}

\* the feeds the tick in progress has pushed a job for
PushedByTick == {hist.pushed[i] : i \in 1..Len(hist.pushed)}

\* C3: a tick selects feeds that were due at its now, in ascending next_run_at,
\* the earliest ones and at most scheduler_batch_size of them (all of them when
\* they fit); it pushes one job per selected feed, in that order, and none for
\* another feed; once it has committed, every selected feed's next_run_at is the
\* tick's now plus the feed's interval_seconds.
C3_TickSelection ==
    sched.pc \in {"push", "sleep"} =>
       LET s == sched.selected
           n == Len(s)
       IN /\ n = Min(BatchSize, Cardinality(DueAtTick))
          /\ \A i \in 1..n : s[i] \in DueAtTick
          /\ \A i, j \in 1..n : i < j =>
                /\ s[i] # s[j]
                /\ hist.rows[s[i]].next_run_at <= hist.rows[s[j]].next_run_at
          /\ \A f \in DueAtTick \ {s[i] : i \in 1..n} :
                \A i \in 1..n : hist.rows[s[i]].next_run_at <= hist.rows[f].next_run_at
          /\ Len(hist.pushed) <= n
          /\ hist.pushed = SubSeq(s, 1, Len(hist.pushed))
          /\ sched.pc = "sleep" =>
                /\ hist.pushed = s
                /\ \A i \in 1..n :
                      feeds[s[i]].next_run_at = sched.now + hist.rows[s[i]].interval_seconds

\* a committed tick that found more due feeds than one batch takes, one of them
\* overdue, and enqueued a full batch
C3_Witness ==
    /\ sched.pc = "sleep"
    /\ Len(sched.selected) = BatchSize
    /\ Cardinality(DueAtTick) > BatchSize
    /\ \E f \in DueAtTick : hist.rows[f].next_run_at < sched.now
    /\ hist.pushed = sched.selected

\* C4: a tick does not enqueue a feed for which a job is still queued or held by
\* a worker; and after a tick whose due feeds fit into one batch, every feed
\* that was due when the tick started has been enqueued by the tick or was
\* already in flight.
C4_EnqueuedOrInFlight ==
    sched.pc \in {"push", "sleep"} =>
       /\ \A f \in PushedByTick : f \notin hist.inflight
       /\ (sched.pc = "sleep" /\ Cardinality(DueAtTick) <= BatchSize) =>
             \A f \in DueAtTick : f \in PushedByTick \/ f \in hist.inflight

\* C5: when a job was popped and its fetch died with the worker, no later tick
\* enqueues the feed before interval_seconds have elapsed since the tick that
\* enqueued the lost job, the feed is enqueued at most once then, and the items
\* table holds no two rows with the same (feed_id, guid).
C5_NotReenqueuedEarly ==
    \A f \in Feeds :
       hist.lost[f] # None =>
          /\ \A i \in 1..Len(hist.requeued[f]) :
                hist.requeued[f][i] >= hist.lost[f][1] + feeds[f].interval_seconds
          /\ \A i, j \in 1..Len(hist.requeued[f]) :
                i # j => hist.requeued[f][i] # hist.requeued[f][j]
          /\ \A r, q \in BagToSet(ItemsOf(f)) :
                /\ CopiesIn(r, items) = 1
                /\ r.guid = q.guid => r = q

\* the last tick before the clock stops
LastTick == (MaxTime \div TickSeconds) * TickSeconds

\* C6: a job that was popped and died with the worker before its fetch finished
\* is not lost for good: once the worker stays up, and when the feed's
\* next_run_at comes up at a tick the clock still reaches, a tick enqueues the
\* feed again and a fetch of the feed is performed.
C6_AtLeastOnce ==
    \A f \in Feeds :
       (/\ hist.lost[f] # None
        /\ hist.crashes = MaxCrashes
        /\ feeds[f].next_run_at <= LastTick)
          ~> (hist.requeued[f] # <<>> /\ f \in hist.refetched)

\* a feed whose job died mid-fetch was enqueued again by a tick one interval
\* after the tick of the lost job, and fetched again
C6_Witness ==
    \E f \in Feeds :
       /\ hist.lost[f] # None
       /\ hist.requeued[f] = <<hist.lost[f][1] + feeds[f].interval_seconds>>
       /\ f \in hist.refetched

\* a task whose fetch_feed has done all its writes and is about to leave the gate
Finished(t) == tasks[t].pc = "run" /\ tasks[t].todo = <<>>

\* how often a task wrote to a table
Writes(t, table) ==
    Cardinality({i \in 1..Len(tasks[t].writes) : tasks[t].writes[i] = table})

\* C7: when a fetch gets a 200 with the document that the feed's previous fetch
\* got, and no other fetch of the feed overlaps either, the second fetch inserts
\* no Item (new_items is 0, no INSERT is issued), the feed's Item rows are the
\* ones it found, and once it has finished it has appended exactly one FetchLog
\* row.
C7_RefetchIdempotent ==
    \A t \in TaskIds :
       (/\ tasks[t].pc = "run"
        /\ tasks[t].response.status_code = 200
        /\ tasks[t].prev = Some(tasks[t].response.doc)
        /\ tasks[t].alone)
       => /\ tasks[t].result.new_items = 0
          /\ Writes(t, "items") = 0
          /\ ItemsOf(tasks[t].feed_id) = tasks[t].pre
          /\ Writes(t, "log") <= 1
          /\ Finished(t) => Writes(t, "log") = 1

\* a finished second fetch of a document whose entries the first fetch stored
C7_Witness ==
    \E t \in TaskIds :
       /\ Finished(t)
       /\ tasks[t].response.status_code = 200
       /\ tasks[t].prev = Some(tasks[t].response.doc)
       /\ tasks[t].alone
       /\ tasks[t].result.status = "success"
       /\ BagCardinality(tasks[t].pre) = Len(Docs[tasks[t].response.doc].entries)
       /\ BagCardinality(tasks[t].pre) > 0

\* a step of task t's fetch that performs the next of its writes
WriteStep(t) ==
    /\ tasks[t].pc = "run"
    /\ tasks[t].todo # <<>>
    /\ tasks'[t].pc = "run"
    /\ Len(tasks'[t].todo) = Len(tasks[t].todo) - 1

\* C8: a fetch answered with 304 writes a FetchLog row (status 304, 0 bytes, no
\* error) and then the Feed row, and nothing else; its steps leave the items
\* table as it is; its Feed update leaves etag, last_modified, title,
\* next_run_at and interval_seconds as they are and sets last_status to 304 and
\* last_fetch_at to the clock reading of the update; its outcome is
\* not_modified with no new item.
C8_NotModifiedFrame ==
    /\ [](\A t \in TaskIds :
            (tasks[t].pc \in {"run", "status"} /\ tasks[t].response.status_code = 304)
            => /\ tasks[t].result = Result("not_modified", 0)
               /\ tasks[t].writes \in {<<>>, <<"log">>, <<"log", "feed">>}
               /\ (Finished(t) \/ tasks[t].pc = "status")
                     => tasks[t].writes = <<"log", "feed">>)
    /\ [][\A t \in TaskIds :
            (WriteStep(t) /\ tasks[t].response.status_code = 304)
            => LET f  == tasks[t].feed_id
                   op == Head(tasks[t].todo)
               IN /\ items' = items
                  /\ feeds'[f].etag = feeds[f].etag
                  /\ feeds'[f].last_modified = feeds[f].last_modified
                  /\ feeds'[f].title = feeds[f].title
                  /\ feeds'[f].next_run_at = feeds[f].next_run_at
                  /\ feeds'[f].interval_seconds = feeds[f].interval_seconds
                  /\ \A g \in Feeds \ {f} : feeds'[g] = feeds[g]
                  /\ op.op = "log" =>
                        /\ feeds' = feeds
                        /\ fetch_log' = fetch_log (+) SetToBag({[feed_id |-> f,
                               status_code |-> 304, bytes |-> 0, error |-> None]})
                  /\ op.op = "upd" =>
                        /\ fetch_log' = fetch_log
                        /\ feeds'[f].last_status = Some(304)
                        /\ feeds'[f].last_fetch_at = Some(op.at)
                        /\ op.at <= now]_vars

\* a finished fetch that was answered with 304 for a feed with stored validators
\* and stored items
C8_Witness ==
    \E t \in TaskIds :
       /\ Finished(t)
       /\ tasks[t].response.status_code = 304
       /\ feeds[tasks[t].feed_id].etag # None
       /\ feeds[tasks[t].feed_id].last_status = Some(304)
       /\ ItemsOf(tasks[t].feed_id) # EmptyBag

\* the entries of document d that carry a guid no row of rows has
AbsentEntries(d, rows) ==
    {i \in 1..Len(Docs[d].entries) :
       /\ get_entry_guid(Docs[d].entries[i]) # None
       /\ get_entry_guid(Docs[d].entries[i]) \notin Guids(rows)}

C10_ConflictSkipped ==
    \A t \in TaskIds :
       (tasks[t].pc \in {"run", "status"} /\ tasks[t].conflict)
       => /\ tasks[t].result.status = "success"
          /\ \A i \in 1..Len(tasks[t].items_to_insert) :
                item_exists(tasks[t].feed_id, tasks[t].items_to_insert[i].guid)

\* C18: no step lowers the last_fetch_at of a feed or clears it.
C18_LastFetchMonotonic ==
    [][\A f \in Feeds :
          feeds[f].last_fetch_at # None =>
             /\ feeds'[f].last_fetch_at # None
             /\ feeds'[f].last_fetch_at[1] >= feeds[f].last_fetch_at[1]]_vars

\* the response of task t is an HTTP error (neither 200 nor 304) or no response
\* at all (status_code 0: the transport failed)
ErrorResponse(t) ==
    /\ tasks[t].pc \in {"run", "status"}
    /\ tasks[t].response.status_code \notin {200, 304}

\* C12: a fetch whose response is an HTTP error, or whose transport failed, has
\* the outcome error; it writes one FetchLog row and then the Feed row and
\* nothing else; the FetchLog row carries the response's status code, which is
\* 0 exactly when the transport failed, and an error string; the Feed update
\* sets last_status to that code and last_fetch_at to its clock reading and
\* leaves etag and last_modified as they are; no step of it changes the items
\* table.
C12_ErrorPath ==
    /\ [](\A t \in TaskIds :
            ErrorResponse(t)
            => /\ tasks[t].result.status = "error"
               /\ tasks[t].writes \in {<<>>, <<"log">>, <<"log", "feed">>}
               /\ (Finished(t) \/ tasks[t].pc = "status")
                     => tasks[t].writes = <<"log", "feed">>)
    /\ [][\A t \in TaskIds :
            (WriteStep(t) /\ ErrorResponse(t))
            => LET f    == tasks[t].feed_id
                   op   == Head(tasks[t].todo)
                   code == tasks[t].response.status_code
               IN /\ items' = items
                  /\ feeds'[f].etag = feeds[f].etag
                  /\ feeds'[f].last_modified = feeds[f].last_modified
                  /\ op.op = "log" =>
                        /\ feeds' = feeds
                        /\ op.error # None
                        /\ op.status_code = code
                        /\ fetch_log' = fetch_log (+) SetToBag({[feed_id |-> f,
                               status_code |-> code, bytes |-> 0, error |-> op.error]})
                  /\ op.op = "upd" =>
                        /\ fetch_log' = fetch_log
                        /\ feeds'[f].last_status = Some(code)
                        /\ feeds'[f].last_fetch_at = Some(op.at)]_vars

\* a finished fetch that got an HTTP 500 for a feed with a stored etag and stored
\* items
C12_Witness ==
    \E t \in TaskIds :
       /\ Finished(t)
       /\ tasks[t].response.status_code = 500
       /\ feeds[tasks[t].feed_id].etag # None
       /\ feeds[tasks[t].feed_id].last_status = Some(500)
       /\ ItemsOf(tasks[t].feed_id) # EmptyBag

\* C13: a fetch whose document is unparseable (bozo) and has no entries ends in
\* error and has, when it finishes, written one FetchLog row, the Feed row
\* (last_fetch_at, last_status) and no Item.
C13_ParseErrorPath ==
    \A t \in TaskIds :
       (/\ Finished(t)
        /\ tasks[t].response.status_code = 200
        /\ Docs[tasks[t].response.doc].bozo
        /\ Docs[tasks[t].response.doc].entries = <<>>)
       => /\ tasks[t].result.status = "error"
          /\ Writes(t, "log") = 1
          /\ Writes(t, "items") = 0
          /\ Writes(t, "feed") = 1
          /\ feeds[tasks[t].feed_id].last_fetch_at # None

\* the messages a step publishes
NewEvents == events' (-) events

\* C14: a task that leaves with its fetch outcome publishes exactly one
\* fetch_status message, and only such a step publishes one; the return of
\* fetch_feed publishes a new_items message if and only if the outcome is success
\* with at least one new Item, and its count is the number of rows the fetch's
\* INSERT added to the items table; no other step publishes anything.
C14_Events ==
    [][/\ \A t \in TaskIds :
            /\ (tasks[t].pc = "insert" /\ tasks'[t].pc = "run") =>
                   tasks'[t].result.new_items = BagCardinality(items') - BagCardinality(items)
            /\ (tasks[t].pc = "run" /\ tasks'[t].pc = "run") =>
                   tasks'[t].result = tasks[t].result
            /\ (tasks[t].pc = "run" /\ tasks'[t].pc = "status") =>
                   LET r == tasks[t].result
                   IN /\ tasks'[t].result = r
                      /\ IF r.status = "success" /\ r.new_items > 0
                         THEN /\ BagCardinality(NewEvents) = 1
                              /\ \E e \in BagToSet(NewEvents) :
                                    /\ e.type = "new_items"
                                    /\ e.feed_id = tasks[t].feed_id
                                    /\ e.count = r.new_items
                         ELSE events' = events
            /\ (tasks[t].pc = "status" /\ tasks'[t].pc = "free") =>
                   /\ BagCardinality(NewEvents) = 1
                   /\ \E e \in BagToSet(NewEvents) :
                         /\ e.type = "fetch_status"
                         /\ e.feed_id = tasks[t].feed_id
                         /\ e.status = "ok" <=> tasks[t].result.status = "success"
       /\ (\A t \in TaskIds : tasks'[t].pc = tasks[t].pc \/ tasks'[t].pc \notin {"status", "free"}) =>
              events' = events]_vars

\* both jobs of the backlog are done: one fetch stored two Items and published
\* new_items with count 2 and fetch_status ok, the other published fetch_status
\* error and no new_items
C14_Witness ==
    /\ jobs = <<>>
    /\ \A t \in TaskIds : tasks[t].pc = "free"
    /\ BagCardinality(events) = 3
    /\ \E f, g \in Feeds :
          /\ f # g
          /\ BagCardinality(ItemsOf(f)) = 2
          /\ BagIn([type |-> "new_items", feed_id |-> f, count |-> 2, enc |-> "repr"], events)
          /\ BagIn([type |-> "fetch_status", feed_id |-> f, status |-> "ok", enc |-> "json"], events)
          /\ BagIn([type |-> "fetch_status", feed_id |-> g, status |-> "error", enc |-> "json"], events)

\* C16: a task is past the GET only while it holds a permit of its host's gate,
\* and on every path, with every write and every publish liable to raise, the
\* free permits of a host's gate are the K permits less the fetches in progress
\* to that host: when none is in progress all K are free.
C16_GateReleased ==
    /\ \A t \in TaskIds :
          tasks[t].pc \in InGate => Host(tasks[t].feed_id) \in DOMAIN host_semaphores
    /\ \A h \in DOMAIN host_semaphores :
          host_semaphores[h] + Cardinality(InFlightTo(h)) = PerHostConcurrency

\* a fetch whose except branch raised while it recorded the error has left
\* fetch_feed, and no fetch to its host is in progress: both permits are free
C16_Witness ==
    \E t \in TaskIds :
       /\ tasks[t].pc = "status"
       /\ tasks[t].escaped
       /\ InFlightTo(Host(tasks[t].feed_id)) = {}
       /\ host_semaphores[Host(tasks[t].feed_id)] = PerHostConcurrency

\* C11: once a database write of a fetch has raised, the fetch has added no row
\* to the items table, and the Feed row had not been updated by the fetch when
\* the write raised.
C11_SingleTransaction ==
    \A t \in TaskIds :
       (tasks[t].pc \in {"run", "status"} /\ tasks[t].failed # None) =>
          /\ Writes(t, "items") = 0
          /\ \A i \in 1..Len(tasks[t].failed[1]) : tasks[t].failed[1][i] # "feed"

\* C15: a fetch whose publish of new_items raised keeps the outcome success and
\* has written what a fetch with a successful publish writes: its Items, one
\* update of the Feed row and one FetchLog row.
C15_PublishFailureHarmless ==
    \A t \in TaskIds :
       (tasks[t].pc \in {"run", "status"} /\ tasks[t].unpublished /\ tasks[t].failed = None) =>
          /\ tasks[t].result.status = "success"
          /\ Writes(t, "feed") = 1
          /\ Writes(t, "log") = 1

\* the ticks that are followed by another tick before the clock stops
EarlierTicks == {k \in 0..(LastTick - TickSeconds) : k % TickSeconds = 0}

\* C17: under overload, a feed that is due at a tick is enqueued at that tick or
\* at a later one, as long as ticks follow.
C17_NoStarvation ==
    \A f \in Feeds : \A k \in EarlierTicks :
       (now = k /\ feeds[f].next_run_at <= k)
          ~> (\E i \in 1..Len(jobs) : jobs[i].feed_id = f /\ jobs[i].scheduled_at >= k)

\* the first tick enqueued scheduler_batch_size feeds and passed over a due feed,
\* which the second tick has enqueued
C17_Witness ==
    /\ now = TickSeconds
    /\ Cardinality({g \in Feeds : \E i \in 1..Len(jobs) :
                        jobs[i].feed_id = g /\ jobs[i].scheduled_at = 0}) = BatchSize
    /\ \E f \in Feeds :
          /\ hist.rows[f].next_run_at <= 0
          /\ ~ \E i \in 1..Len(jobs) : jobs[i].feed_id = f /\ jobs[i].scheduled_at = 0
          /\ \E i \in 1..Len(jobs) : jobs[i].feed_id = f /\ jobs[i].scheduled_at = TickSeconds

\* a step of the scheduler that pushes a job for feed f
TickPushes(f) ==
    /\ Len(hist'.pushed) = Len(hist.pushed) + 1
    /\ hist'.pushed[Len(hist'.pushed)] = f

\* C19: refresh_feed sets the feed's next_run_at to now and pushes one job for
\* it, and the tick that follows the refresh pushes no job for that feed.
C19_RefreshIdempotent ==
    [][\A f \in Feeds :
          /\ (api.pc = "idle" /\ api'.pc = "refresh" /\ api'.feed = f) =>
                 feeds'[f].next_run_at = now /\ jobs' = jobs
          /\ (api.pc = "refresh" /\ api'.pc = "idle" /\ api.feed = f) =>
                 /\ Len(jobs') = Len(jobs) + 1
                 /\ Head(jobs').feed_id = f
                 /\ Tail(jobs') = jobs
          /\ hist.refreshed[f] = "next" => ~ TickPushes(f)]_vars

\* the upstream of feed f serves entries, each with a guid of its own
ServesEntries(f) ==
    LET server  == ServedBy(f)
        entries == Docs[server.doc].entries
    IN /\ server.mode \in {"serve", "conditional"}
       /\ entries # <<>>
       /\ \A i \in 1..Len(entries) : get_entry_guid(entries[i]) # None
       /\ \A i, j \in 1..Len(entries) :
             i # j => get_entry_guid(entries[i]) # get_entry_guid(entries[j])

\* C20: once the purge has answered and the jobs it enqueued are processed,
\* every feed whose upstream serves entries has Items again.
C20_PurgeRefills ==
    (/\ hist.purged
     /\ api.pc = "idle"
     /\ jobs = <<>>
     /\ \A t \in TaskIds : tasks[t].pc = "free")
       => \A f \in Feeds : ServesEntries(f) => ItemsOf(f) # EmptyBag

\* the place of a table in the order items, feeds, fetch_log
WriteRank(table) == IF table = "items" THEN 1 ELSE IF table = "feed" THEN 2 ELSE 3

\* C30: the writes a fetch has committed come in the order Item inserts, Feed
\* update, FetchLog append, on every path.
C30_WriteOrder ==
    \A t \in TaskIds :
       tasks[t].pc \in {"run", "status"} =>
          \A i, j \in 1..Len(tasks[t].writes) :
             i < j => WriteRank(tasks[t].writes[i]) <= WriteRank(tasks[t].writes[j])

\* C21: the consumer is not stopped before the scheduler, no tick starts once
\* the scheduler is stopped, and the HTTP client is closed only when every
\* popped job has been processed: no task is left, and none appears later.
C21_GracefulStop ==
    /\ [](/\ (~ worker.consumer_running) => ~ worker.sched_running
          /\ worker.http_closed => \A t \in TaskIds : tasks[t].pc = "free")
    /\ [][(sched.pc = "select" /\ sched'.pc # "select") => worker.sched_running]_vars

\* C22: a feed that import_opml creates has next_run_at = now + 5 s, and a
\* committed imported feed that is due when a tick selects has been enqueued
\* when that tick sleeps, however many feeds were imported together.
C22_ImportEnqueued ==
    /\ [](sched.pc = "sleep" => \A f \in DueAtTick \cap hist.imported : f \in PushedByTick)
    /\ [][((api.pc = "idle" /\ api'.pc = "import") =>
              (\A f \in DOMAIN api'.rows : api'.rows[f].next_run_at = now + ImportDelay))
          /\ ((api.pc = "import" /\ api'.pc # "import") =>
                 (\A g \in DOMAIN api.rows : feeds'[g] = api.rows[g]))]_vars

\* C27: an import that created feeds answers "completed" with the number of
\* feeds it created, and the feeds are stored, also when the publish failed.
C27_ImportWithoutRedis ==
    (api.pc = "idle" /\ hist.imported # {}) =>
        /\ api.response = "completed"
        /\ api.created = Cardinality(hist.imported)
        /\ hist.imported \subseteq DOMAIN feeds

\* The consumer on a backlog of jobs, every feed behind its server, while the
\* control plane deletes a feed.
NextDelete ==
    \/ Consumer
    \/ Response
    \/ Delete

SpecDelete == InitFetch /\ [][NextDelete]_vars

\* C23: every Item row and every FetchLog row references an existing Feed, also
\* when delete_feed runs while a worker task writes rows of that feed: after a
\* successful delete no row of the deleted feed remains or appears.
C23_RowsReferenceFeed ==
    /\ \A r \in BagToSet(items) : r.feed_id \in DOMAIN feeds
    /\ \A r \in BagToSet(fetch_log) : r.feed_id \in DOMAIN feeds

\* a feed was deleted under a task that then tried to write a row of it
C23_Witness ==
    /\ api.response = "deleted"
    /\ \E t \in TaskIds :
          /\ tasks[t].pc = "status"
          /\ tasks[t].feed_id = api.feed
          /\ tasks[t].escaped

\* The scheduler and an API process that serves MaxSequence requests, one after
\* the other, on an empty store (no job is consumed).
InitControl ==
    /\ now = 0
    /\ feeds = <<>>
    /\ items = EmptyBag
    /\ fetch_log = EmptyBag
    /\ jobs = <<>>
    /\ sched = SchedIdle
    /\ tasks = [t \in TaskIds |-> NoTask]
    /\ host_semaphores = <<>>
    /\ events = EmptyBag
    /\ api = ApiIdle(MaxCalls - MaxSequence)
    /\ requests = [r \in Requests |-> NoRequest]
    /\ read_state = EmptyBag
    /\ categories = <<>>
    /\ worker = WorkerUp
    /\ hist = HistInit
    /\ sse = [c \in Clients |-> NoStream]

NextControl ==
    \/ Scheduler
    \/ Create
    \/ Update
    \/ Import
    \/ Refresh
    \/ Purge

SpecControl == InitControl /\ [][NextControl]_vars

\* C25: every Feed has interval_seconds >= 60, after any sequence of
\* create_feed, update_feed and import with any requested interval.
C25_IntervalAtLeast60 == \A f \in DOMAIN feeds : feeds[f].interval_seconds >= 60

\* C24: every Feed satisfies next_run_at >= created_at, after any sequence of
\* create_feed, import, refresh_feed, purge and scheduler ticks.
C24_NextRunAfterCreation == \A f \in DOMAIN feeds : feeds[f].next_run_at >= feeds[f].created_at

\* An API process that imports documents and exports the store, on an empty
\* store.
NextOpml ==
    \/ ImportDocument
    \/ export_opml

SpecOpml == InitControl /\ [][NextOpml]_vars

\* C26: the export of a store filled by an import is answered with a document
\* whose import into an empty store creates the feeds of the exported store (the
\* same set of urls), for feeds of the body and for feeds inside categories.
C26_OpmlRoundTrip ==
    (api.pc = "idle" /\ api.response \in {"exported", "export_failed"} /\ hist.imported # {}) =>
        /\ api.response = "exported"
        /\ FeedsToCreate(<<>>, api.document) = DOMAIN feeds

\* the item of the store of InitRead and the bodies of the requests
ReadItem == item_data(1, get_entry_guid(EntA), EntA)

Bodies == {None, Some(TRUE), Some(FALSE)}

\* Two update_read_status requests on one item, with any bodies, on a store
\* where the item has no ReadState row or has one.
InitRead ==
    /\ now = 0
    /\ feeds = [f \in Feeds |-> FeedRow(f, IntervalOf(f))]
    /\ items = SetToBag({ReadItem})
    /\ fetch_log = EmptyBag
    /\ jobs = <<>>
    /\ sched = SchedIdle
    /\ tasks = [t \in TaskIds |-> NoTask]
    /\ host_semaphores = <<>>
    /\ events = EmptyBag
    /\ api = ApiIdle(0)
    /\ worker = WorkerUp
    /\ hist = HistInit
    /\ categories = <<>>
    /\ read_state \in {EmptyBag} \cup
          {SetToBag({ReadStateRow(ItemKey(ReadItem), read_at, starred)}) :
              read_at \in {None, Some(Epoch)}, starred \in BOOLEAN}
    /\ requests \in [Requests -> {Request(ItemKey(ReadItem), read, starred) :
                                    read \in Bodies, starred \in Bodies}]
    /\ sse = [c \in Clients |-> NoStream]

NextRead == ReadStatus

SpecRead == InitRead /\ [][NextRead]_vars

\* C28: of two requests on one item, one that sets read and one that sets
\* starred, both are answered "updated" in every interleaving, also when the
\* item has no ReadState row yet, and the item never has two ReadState rows.
C28_ConcurrentReadState ==
    (/\ requests[1].read = Some(TRUE) /\ requests[1].starred = None
     /\ requests[2].read = None /\ requests[2].starred = Some(TRUE)) =>
        /\ \A r \in Requests : requests[r].pc = "done" => requests[r].response = "updated"
        /\ \A row \in BagToSet(read_state) :
              /\ read_state[row] = 1
              /\ \A other \in BagToSet(read_state) : other.item_id = row.item_id => other = row

\* Two clients of the event stream on an idle store.
InitSse ==
    /\ now = 0
    /\ feeds = [f \in Feeds |-> FeedRow(f, IntervalOf(f))]
    /\ items = EmptyBag
    /\ fetch_log = EmptyBag
    /\ jobs = <<>>
    /\ sched = SchedIdle
    /\ tasks = [t \in TaskIds |-> NoTask]
    /\ host_semaphores = <<>>
    /\ events = EmptyBag
    /\ api = ApiIdle(0)
    /\ worker = WorkerUp
    /\ hist = HistInit
    /\ categories = <<>>
    /\ read_state = EmptyBag
    /\ requests = [r \in Requests |-> NoRequest]
    /\ sse = [c \in Clients |-> Stream]

NextSse == EventStream

SpecSse == InitSse /\ [][NextSse]_vars

\* C29: a stream that has ended, by a client disconnect, a failed subscribe or
\* an exception while reading, has called unsubscribe once and close once; no
\* stream calls either twice; a stream that has observed the disconnect yields
\* no further event.
C29_StreamCleanup ==
    /\ [](\A c \in Clients :
             /\ sse[c].unsubscribes <= 1
             /\ sse[c].closes <= 1
             /\ sse[c].pc = "done" => sse[c].unsubscribes = 1 /\ sse[c].closes = 1)
    /\ [][\A c \in Clients : sse[c].observed => sse'[c].yielded = sse[c].yielded]_vars

\* C31: at no time are two worker tasks inside the fetch of the same feed (GET
\* sent, Items, Feed status or FetchLog not yet all written), also with two jobs
\* for that feed in the queue.
C31_FeedWritesSerialized ==
    \A t, u \in TaskIds :
       (t # u /\ tasks[t].pc \in InGate /\ tasks[u].pc \in InGate) =>
           tasks[t].feed_id # tasks[u].feed_id

\* C32: the jobs popped from the queue and not yet finished are at most as many
\* as the consumer coroutines of the pool (each coroutine handles one job at a
\* time and pops the next one only when its job is done).
C32_PoolBoundsJobs ==
    Cardinality({t \in TaskIds : tasks[t].pc # "free"}) <= Consumers

\* urlparse(url).netloc of an entry's link
ArticleHost(url) == IF url = <<"l">> THEN "l.example" ELSE "a.example"

\* the step in which task t builds the row of a new entry that has a link: the
\* GET of the article (fetcher.py 317-319) is part of it
ArticleRequested(t) ==
    /\ tasks[t].pc = "entries"
    /\ Len(tasks'[t].items_to_insert) > Len(tasks[t].items_to_insert)
    /\ tasks'[t].items_to_insert[Len(tasks'[t].items_to_insert)].url # None

\* C33: a task issues the GET of an article while it does not hold the gate of
\* its feed's host, and through a gate of the article's own host.
C33_ArticleGate ==
    [][\A t \in TaskIds :
          ArticleRequested(t) =>
             /\ tasks[t].pc \notin InGate
             /\ ArticleHost(tasks'[t].items_to_insert[Len(tasks'[t].items_to_insert)].url)
                   \in DOMAIN host_semaphores']_vars

\* C34: every job descriptor on the jobs queue, pushed by the scheduler or by a
\* control-plane producer (refresh_feed, create_feed, purge), names a feed and is
\* in the encoding the consumer decodes (JSON).
C34_JobsDecodable ==
    \A i \in DOMAIN jobs : jobs[i].enc = "json" /\ jobs[i].feed_id \in Feeds

\* The consumer on a backlog of jobs, every GET answered by any server, while
\* clients update the feeds.
NextTitle ==
    \/ Consumer
    \/ \E t \in TaskIds, server \in Servers : fetch_feed_response(t, server)
    \/ Update

SpecTitle == InitFetch /\ [][NextTitle]_vars

\* C35: a step of a fetch (a step of a worker task) never changes the title of
\* a Feed that has one, whoever set it and whenever.
C35_FetchKeepsTitle ==
    [][tasks' # tasks =>
         \A f \in DOMAIN feeds \cap DOMAIN feeds' :
            feeds[f].title # None => feeds'[f].title = feeds[f].title]_vars

\* the step in which task t publishes the fetch_status event of its attempt
StatusPublished(t) == tasks[t].pc = "status" /\ tasks'[t].pc = "free"

\* the FetchLog rows of a feed that carry an error text (failed = TRUE) or none
LoggedAttempts(f, failed) ==
    {r \in BagToSet(fetch_log) : r.feed_id = f /\ ((r.error # None) <=> failed)}

\* C36: the fetch_status event of an attempt reports an error exactly when the
\* attempt's FetchLog row has an error text: an event with status "error" has a
\* logged failure of its feed behind it, an event with status "ok" a logged attempt
\* without error.
C36_EventMatchesLog ==
    [][\A t \in TaskIds :
          StatusPublished(t) =>
             LoggedAttempts(tasks[t].feed_id,
                            FetchStatusEvent(tasks[t].result, tasks[t].feed_id).status = "error")
                # {}]_vars

\* _schedule_feeds, lines 68-89, and start(), lines 36-38: an lpush, an UPDATE or
\* the commit of the tick raises (broker or database error). The exception
\* leaves get_db_session, whose close rolls the open transaction back
\* (database.py 23-30); start() prints it and sleeps. The jobs already pushed
\* stay in the queue.
schedule_feeds_fails ==
    /\ sched.pc = "push"
    /\ sched' = [SchedIdle EXCEPT !.pc = "sleep", !.now = sched.now]
    /\ UNCHANGED <<now, feeds, items, fetch_log, jobs, tasks, host_semaphores, events, api, worker, hist, categories, read_state, requests, sse>>

\* The scheduler alone, any tick of which may fail part-way, on the stores of
\* InitTick.
NextTickFault ==
    \/ Scheduler
    \/ schedule_feeds_fails

SpecTickFault == InitTick /\ [][NextTickFault]_vars

\* C37: when a tick is over (the scheduler sleeps), every feed for which the
\* tick pushed a job has its next_run_at advanced past the tick's now, whether
\* the tick committed or failed part-way.
C37_TickAllOrNothing ==
    sched.pc = "sleep" =>
       \A i \in DOMAIN hist.pushed :
          hist.pushed[i] \in DOMAIN feeds =>
             feeds[hist.pushed[i]].next_run_at > sched.now

\* the step in which task t writes the Feed row at the end of a successful fetch
SuccessRecorded(t) ==
    /\ tasks[t].pc = "run"
    /\ tasks[t].todo # <<>>
    /\ Head(tasks[t].todo).op = "upd"
    /\ Head(tasks[t].todo).status_code = 200
    /\ tasks'[t].writes # tasks[t].writes
    /\ tasks[t].feed_id \in DOMAIN feeds

\* C38: after the Feed update of a successful fetch, the stored etag and
\* last_modified are the ETag and Last-Modified of the response, present or
\* absent.
C38_ValidatorsOfResponse ==
    [][\A t \in TaskIds :
          SuccessRecorded(t) =>
             /\ feeds'[tasks[t].feed_id].etag = Docs[tasks[t].response.doc].etag
             /\ feeds'[tasks[t].feed_id].last_modified
                   = Docs[tasks[t].response.doc].last_modified]_vars

\* C39: the feeds a tick selected are in the order (next_run_at, feed id), and a
\* due feed left out by the batch limit does not precede a selected one in that
\* order: among feeds with equal next_run_at the smaller ids are taken first.
C39_TiesByFeedId ==
    sched.pc = "push" =>
       LET s    == sched.selected
           rows == hist.rows
       IN /\ \A i, j \in DOMAIN s :
                (i < j /\ rows[s[i]].next_run_at = rows[s[j]].next_run_at) => s[i] < s[j]
          /\ \A f \in hist.due \ {s[i] : i \in DOMAIN s} :
                \A i \in DOMAIN s :
                   rows[f].next_run_at = rows[s[i]].next_run_at => s[i] < f

\* the guid the derivation rule gives an entry: the id, else the link, each cut
\* to the width of the guid column, else the hash of title and published
DerivedGuid(entry) ==
    IF entry.id # None THEN SubSeq(entry.id, 1, Min(Len(entry.id), GuidLen))
    ELSE IF entry.link # None THEN SubSeq(entry.link, 1, Min(Len(entry.link), GuidLen))
    ELSE IF entry.title # None THEN <<"sha256", entry.title \o entry.published>>
    ELSE None

\* the step in which task t runs one iteration of the loop over the entries
EntryProcessed(t) ==
    /\ tasks[t].pc = "entries"
    /\ \/ tasks'[t].pc # "entries"
       \/ tasks'[t].i # tasks[t].i
       \/ tasks'[t].items_to_insert # tasks[t].items_to_insert

\* C40: in every iteration of the loop over the entries, an entry without a
\* derivable guid is skipped and the loop goes on to the next entry; an entry
\* that has one and is not stored yet is queued for insertion under the guid the
\* rule derives (id, else link, else hash of title and published).
C40_GuidDerivation ==
    [][\A t \in TaskIds :
          EntryProcessed(t) =>
             LET task    == tasks[t]
                 entries == Docs[task.response.doc].entries
                 guid    == DerivedGuid(entries[task.i])
                 queued  == tasks'[t].items_to_insert
             IN /\ tasks'[t].i = task.i + 1
                /\ tasks'[t].pc = IF task.i < Len(entries) THEN "entries" ELSE "insert"
                /\ IF guid = None \/ item_exists(task.feed_id, guid)
                   THEN queued = task.items_to_insert
                   ELSE /\ Len(queued) = Len(task.items_to_insert) + 1
                        /\ SubSeq(queued, 1, Len(task.items_to_insert)) = task.items_to_insert
                        /\ queued[Len(queued)].guid = guid
                        /\ queued[Len(queued)].feed_id = task.feed_id]_vars

\* a fetch went through a document whose second entry has no guid: the entries
\* before and after it are queued, by link and by hash
C40_Witness ==
    \E t \in TaskIds :
       /\ tasks[t].pc = "insert"
       /\ Docs[tasks[t].response.doc].entries = <<EntL, EntNone, EntT>>
       /\ Len(tasks[t].items_to_insert) = 2
       /\ tasks[t].items_to_insert[1].guid = <<"a">>
       /\ tasks[t].items_to_insert[2].guid = <<"sha256", <<"T", "p">>>>

====
